---- MODULE Spec2Model ----
(***************************************************************************)
(* Model of the scripted endpoint runtime of the ChiselStrike server       *)
(* (server/src/deno.rs, server/src/policies.rs).                           *)
(*                                                                         *)
(* One VM (DenoService) lives on one thread.  The tasks of that thread are *)
(* the define_endpoint task and the request tasks; between two awaits a    *)
(* task runs atomically, so every action below is one synchronous stretch  *)
(* of one task (one poll of its future).                                   *)
(***************************************************************************)
EXTENDS Integers, Sequences, FiniteSets, TLC

\* ------------------------------------------------------------------ bounds
MaxReq == 2         \* request tasks
MaxDefines == 2     \* define_endpoint calls
MaxRid == 1         \* entries ever added to the resource table
NumRows == 2        \* rows stored for the entity type
MaxStored == 1      \* rows the scripts add with chisel_store
MaxChunks == 2      \* chunks one response body yields
MaxItems == 2       \* items of a module given to the rewriter

\* ----------------------------------------------------------------- values
\* A path is the sequence of its characters.
PathUsers == <<"/", "u", "s", "e", "r", "s">>
PathAdmin == <<"/", "a", "d", "m", "i", "n", "/", "u", "s", "e", "r", "s">>
Paths == {PathUsers, PathAdmin}
NoPath == <<>>

\* Endpoint sources.  "h1"/"h2" export a callable default; "throw" throws at
\* top level; "nodefault" has no default export, or one that is not callable;
\* "syntax" does not parse as typed JS.
Codes == {"h1", "h2", "throw", "nodefault", "syntax"}
NoCode == "<absent>"

Requests == 1..MaxReq
DefTask == 0            \* the define_endpoint task
NoTask == -1

\* Option<v8::Global<v8::Function>>: None, or the default export of the
\* module instance imported from the url <prefix>/<path>?ver=<ver>.
NoFunc == [some |-> FALSE, path |-> NoPath, ver |-> 0, code |-> NoCode]
SomeFunc(p, v, c) == [some |-> TRUE, path |-> p, ver |-> v, code |-> c]

\* HashMap<String, VersionedHandler>: a vacant key is present = FALSE.
VacantHandler == [present |-> FALSE, version |-> 0, func |-> NoFunc]
VersionedHandler(v, f) == [present |-> TRUE, version |-> v, func |-> f]

\* The define_endpoint task: where it stands, the arguments of the last
\* call, the version that call chose and what it returned.
IdleDef == [pc |-> "idle", path |-> NoPath, version |-> 0, code |-> NoCode,
            result |-> "none"]

\* A request task: where it stands ("failed": run_js returned an error, or
\* the body stream yielded one), its path and the handler it cloned out of
\* the table and still holds.
IdleReq == [pc |-> "idle", path |-> NoPath, func |-> NoFunc]

VARIABLES
    handlers,       \* DenoService.handlers
    code_map,       \* ModuleLoader.code_map (endpoint keys only)
    modules,        \* module instances the VM holds, by url
    borrowed,       \* the task holding RefCell<DenoService>::borrow_mut
    panicked,       \* "none", or the panic that hit the VM thread
    current_path,   \* thread-local CURRENT_REQUEST_PATH
    def,            \* the define_endpoint task
    ndefs,          \* define_endpoint calls made so far
    req,            \* the request tasks
    resources,      \* OpState.resource_table, in order of insertion
    pending_create, \* the request whose chisel_query_create op is in flight
    stored,         \* rows op_chisel_store has added to the table
    store_op,       \* the chisel_store op in flight: where it waits, and
                    \* its argument
    login,          \* the user the callers are authenticated as
    ast,            \* the module chiselc rewrites, before and after
    versions,       \* Policies.versions
    yaml_load,      \* the last Policies::add_from_yaml call and its result
    user_authorization, \* UserAuthorization.paths of the policy being built
    auth_call,      \* the last UserAuthorization call and its result
    request_init,   \* per request, the init object of the Request built
    read_log,       \* per request, what its reader.read() calls returned
    body_out,       \* per request, the chunks its response stream yielded
    closed_poll,    \* per request, what a poll of its ended stream yielded
    handler_result, \* per request, what its handler settled to and what
                    \* run_js_aux returned for it
    op_result,      \* the last host op that returned an error, and the error
    create_content, \* the argument of the chisel_query_create in flight
    outbound        \* the Response run_js_aux returned last

endpointVars == <<handlers, code_map, modules, def, ndefs>>
opVars == <<resources, pending_create, stored, store_op>>
\* What the VM's surroundings hold: nothing in deno.rs writes these.
authVars == <<user_authorization, auth_call>>
envVars == <<login, ast, versions, yaml_load, authVars>>
\* What crosses the boundary between the VM and its host.
ioVars == <<request_init, read_log, body_out, closed_poll, handler_result,
            op_result, create_content, outbound>>
vars == <<handlers, code_map, modules, borrowed, panicked, current_path,
          def, ndefs, req, resources, pending_create, stored, store_op,
          login, ast,
          versions, yaml_load, user_authorization, auth_call,
          request_init, read_log, body_out, closed_poll, handler_result,
          op_result, create_content, outbound>>

\* ------------------------------------------------------------ module urls
DUMMY_PREFIX == "file://$chisel$"

\* The url without the version: every install of a path names one module.
EndpointUrlNoVer(p, v) == [prefix |-> DUMMY_PREFIX, path |-> p, ver |-> 0]

\* format!("{}/{}?ver={}", DUMMY_PREFIX, path, code.version), parsed.
EndpointUrl(p, v) == [prefix |-> DUMMY_PREFIX, path |-> p, ver |-> v]

\* ModuleSpecifier::path(): the url's path without the query; the key under
\* which load looks the source up.
UrlPath(url) == url.path

\* specifier.as_str().starts_with(DUMMY_PREFIX)
HasDummyPrefix(url) == url.prefix = DUMMY_PREFIX

\* ModuleLoader::load: which source answers a specifier.
\*   "memory"  - the text stored in code_map under the url's path
\*   "panic"   - code_map has no such key (Option::unwrap on None)
\*   "network" - load_code: reqwest::get(specifier)
LoadKind(url, cm) ==
    IF HasDummyPrefix(url)
    THEN IF UrlPath(url) \in DOMAIN cm /\ cm[UrlPath(url)] # NoCode
         THEN "memory" ELSE "panic"
    ELSE "network"

\* compile_ts_code: parse_typescript_module() answers Ok for this source.
Parses(code) == code # "syntax"

\* ------------------------------------------------------------------ panic
Running == panicked = "none"

\* A panic on the VM thread: nothing of the VM is used afterwards.
Panic(why) ==
    /\ panicked' = why
    /\ UNCHANGED <<handlers, code_map, modules, borrowed, current_path,
                   def, ndefs, req, resources, pending_create, stored, store_op>>

\* -------------------------------------------------------- define_endpoint
\* A redefinition that keeps the entry's version.
DefineNewVersionStuck(h) == IF h.present THEN h.version ELSE 0

\* A redefinition that skips a version.
DefineNewVersionSkip(h) == IF h.present THEN h.version + 2 ELSE 0

\* The version define_endpoint_aux chooses: 0 for a vacant entry, else the
\* entry's version + 1.
DefineNewVersion(h) == IF h.present THEN h.version + 1 ELSE 0

\* A dummy entry that keeps the function of the entry it replaces.
ReserveEntryKeepFunc(hs, p, version) ==
    [hs EXCEPT ![p] = VersionedHandler(version, hs[p].func)]

\* The dummy VersionedHandler { func: None, version } stored over the entry.
ReserveEntry(hs, p, version) ==
    [hs EXCEPT ![p] = VersionedHandler(version, NoFunc)]

\* define_endpoint_aux up to the await in get_endpoint: borrow the service,
\* choose the version, store the dummy entry, insert the source, start the
\* import.
DefineStart(p, c) ==
    /\ Running
    /\ def.pc = "idle"
    /\ ndefs < MaxDefines
    /\ IF borrowed # NoTask
       THEN Panic("already borrowed")
       ELSE LET version == DefineNewVersion(handlers[p]) IN
            /\ borrowed' = DefTask
            /\ handlers' = ReserveEntry(handlers, p, version)
            /\ code_map' = [code_map EXCEPT ![p] = c]
            /\ def' = [pc |-> "importing", path |-> p, version |-> version,
                       code |-> c, result |-> "none"]
            /\ ndefs' = ndefs + 1
            /\ UNCHANGED <<modules, panicked, current_path, req, opVars>>

\* define_endpoint_aux called while an earlier call is suspended in
\* get_endpoint: the earlier call holds the borrow of the service for as
\* long as it is suspended, and d.borrow_mut() finds it taken.
DefineStartSecond(p, c) ==
    /\ Running
    /\ def.pc = "importing"
    /\ ndefs < MaxDefines
    /\ borrowed # NoTask
    /\ panicked' = "already borrowed"
    /\ ndefs' = ndefs + 1
    /\ UNCHANGED <<handlers, code_map, modules, borrowed, current_path,
                   def, req, resources, pending_create, stored, store_op>>

\* A module instance the VM holds: the url it was imported from and the
\* source it was built from.
Module(url, c) == [url |-> url, code |-> c]

IsCached(url, mods) == \E m \in mods : m.url = url

\* The module the VM gives for import(url): the instance it already holds
\* for that url (modules are never unloaded), else one built from the text
\* the loader answers with.
ImportedCode(url, mods, cm) ==
    IF IsCached(url, mods)
    THEN (CHOOSE m \in mods : m.url = url).code
    ELSE cm[UrlPath(url)]

\* The VM loads the module an import names while a task polls the runtime:
\* a static import of the endpoint source being defined, resolved before
\* the source is evaluated, or an import() a handler makes during its
\* request.  A url the VM holds is not loaded again.
\* fetched tells what reqwest::get answers when load goes to the network:
\* an error, a text that parses, or a text that does not; wrap hands the
\* text to compile_ts_code, as it does with a stored source.
FetchOutcomes == {"error", "text", "syntax"}
REMOTE_PREFIX == "https://example.com"
Specifiers ==
    [prefix : {DUMMY_PREFIX, REMOTE_PREFIX}, path : Paths, ver : 0..1]

ImportModule(url, fetched) ==
    /\ Running
    /\ \/ def.pc = "importing" /\ borrowed = DefTask
       \/ \E r \in Requests : borrowed = r /\ req[r].pc = "handler"
    /\ ~IsCached(url, modules)
    /\ CASE LoadKind(url, code_map) = "panic" -> Panic("code_map unwrap")
         [] LoadKind(url, code_map) = "memory"
                /\ ~Parses(code_map[UrlPath(url)]) -> Panic("compile unwrap")
         [] LoadKind(url, code_map) = "memory" ->
              /\ modules' = modules \cup {Module(url, code_map[UrlPath(url)])}
              /\ UNCHANGED <<handlers, code_map, def, ndefs, borrowed,
                             panicked, current_path, req, opVars>>
         [] LoadKind(url, code_map) = "network" /\ fetched = "syntax" ->
              Panic("compile unwrap")
         [] OTHER ->
              /\ modules' = IF fetched = "text"
                            THEN modules \cup {Module(url, "<remote>")}
                            ELSE modules
              /\ UNCHANGED <<handlers, code_map, def, ndefs, borrowed,
                             panicked, current_path, req, opVars>>

\* get_endpoint from the resolution of the import to its return, and the
\* rest of define_endpoint_aux.
DefineFinish ==
    /\ Running
    /\ def.pc = "importing"
    /\ borrowed = DefTask
    /\ LET url == EndpointUrl(def.path, def.version)
           p == def.path
       IN
       IF ~IsCached(url, modules) /\ LoadKind(url, code_map) = "panic"
       THEN Panic("code_map unwrap")
       ELSE IF ~IsCached(url, modules) /\ ~Parses(code_map[UrlPath(url)])
       THEN Panic("compile unwrap")
       ELSE LET code == ImportedCode(url, modules, code_map) IN
            /\ modules' = modules \cup {Module(url, code)}
            /\ borrowed' = NoTask
            /\ IF code = "throw"
               THEN \* resolve_value(promise).await? returns the rejection
                    /\ def' = [def EXCEPT !.pc = "idle",
                                          !.result = "EndpointLoadError"]
                    /\ UNCHANGED <<handlers, code_map>>
               ELSE /\ code_map' = [code_map EXCEPT ![p] = NoCode]
                    /\ IF code = "nodefault"
                       THEN /\ def' = [def EXCEPT !.pc = "idle",
                                           !.result = "EndpointShapeError"]
                            /\ UNCHANGED handlers
                       ELSE /\ def' = [def EXCEPT !.pc = "idle", !.result = "ok"]
                            /\ handlers' = [handlers EXCEPT ![p].func =
                                               SomeFunc(p, def.version, code)]
            /\ UNCHANGED <<panicked, current_path, ndefs, req, opVars>>

\* --------------------------------------------------------------- policies
\* A regex of the two shapes the policies use: "^<literal>" (kind "prefix")
\* and "^$" (kind "empty").
RegexPrefix(lit) == [kind |-> "prefix", lit |-> lit]
RegexEmpty == [kind |-> "empty", lit |-> <<>>]

\* regex::Regex::is_match
IsMatch(re, s) ==
    IF re.kind = "empty"
    THEN s = <<>>
    ELSE /\ Len(s) >= Len(re.lit)
         /\ \A i \in 1..Len(re.lit) : s[i] = re.lit[i]

\* A transform whose result follows the path current at the read.
anonymizeByPath(v) == IF current_path = PathAdmin THEN v ELSE <<"xxxxx">>

\* policies::anonymize
anonymize(v) == <<"xxxxx">>

\* Kind::Transform(f) applied to a value; anonymize is the only f.
Xform(f, v) == anonymize(v)

\* regex::Regex::new for the patterns the policies use: "^$", and "^"
\* followed by a literal.
RegexNew(pat) ==
    IF pat = <<"^", "$">> THEN RegexEmpty
    ELSE RegexPrefix(SubSeq(pat, 2, Len(pat)))

\* A label of the policy yaml; NoPattern / "none": the key is absent.
\* transform is a string, "none", or "<number>" for a value that is no
\* string (transform: 7), which as_str() answers None for.
NoPattern == <<>>
YamlLabel(name, transform, match_login, except_uri) ==
    [name |-> name, transform |-> transform, match_login |-> match_login,
     except_uri |-> except_uri]

\* label["except_uri"].as_str().unwrap_or("^$")
PatternOr(label) ==
    IF label.except_uri = NoPattern THEN <<"^", "$">> ELSE label.except_uri

\* VersionPolicy::from_yaml over the labels of the document, in order: a
\* transform inserts a Transform policy, match_login then inserts a
\* MatchLogin policy over it.
RECURSIVE FromYaml(_)
FromYaml(labels) ==
    IF labels = <<>> THEN <<>>
    ELSE LET label == labels[Len(labels)]
             before == FromYaml(SubSeq(labels, 1, Len(labels) - 1))
             re == RegexNew(PatternOr(label))
             t == IF label.transform = "anonymize"
                  THEN (label.name :> [kind |-> "Transform",
                                       xform |-> "anonymize",
                                       except_uri |-> re]) @@ before
                  ELSE before
         IN IF label.match_login
            THEN (label.name :> [kind |-> "MatchLogin", xform |-> "none",
                                 except_uri |-> re]) @@ t
            ELSE t

\* from_yaml returns an error: some label has a transform that is a string
\* other than anonymize (Some(x) => bail!("unknown transform ..")).  A
\* transform that is absent or no string takes the arm None => {}.
FromYamlFails(labels) ==
    \E i \in 1..Len(labels) :
        labels[i].transform \notin {"anonymize", "none", "<number>"}

\* The policy document of the model:
\*   labels:
\*     - {name: pii, transform: anonymize, except_uri: ^/admin}
\*     - {name: secret, transform: anonymize}
\*     - {name: own, match_login: true}
PolicyYaml ==
    << YamlLabel("pii", "anonymize", FALSE,
                 <<"^", "/", "a", "d", "m", "i", "n">>),
       YamlLabel("secret", "anonymize", FALSE, NoPattern),
       YamlLabel("own", "none", TRUE, NoPattern) >>

\* VersionPolicy.labels as from_yaml builds it for the document.
LabelPolicies == FromYaml(PolicyYaml)

\* Policy documents handed to add_from_yaml: the one above, one label, no
\* label, documents with the transform "redact" after, before and without
\* a well-formed label, and documents with a transform that is no string.
YamlDocs ==
    { PolicyYaml,
      << YamlLabel("secret", "anonymize", FALSE, NoPattern) >>,
      << >>,
      << YamlLabel("pii", "anonymize", FALSE, NoPattern),
         YamlLabel("secret", "redact", FALSE, NoPattern) >>,
      << YamlLabel("secret", "redact", FALSE, NoPattern),
         YamlLabel("own", "none", TRUE, NoPattern) >>,
      << YamlLabel("own", "redact", TRUE, NoPattern) >>,
      << YamlLabel("secret", "<number>", FALSE, NoPattern) >>,
      << YamlLabel("pii", "anonymize", FALSE, NoPattern),
         YamlLabel("own", "<number>", TRUE, NoPattern) >> }

\* The api versions policies are stored for.
VersionNames == {"dev", "v1"}

NoLoad == [version |-> "none", yaml |-> <<>>, result |-> "none",
           before |-> <<>>]

\* let v = VersionPolicy::from_yaml(yaml)?; self.versions.insert(version, v)
Inserted(vs, version, yaml) ==
    IF FromYamlFails(yaml) THEN vs
    ELSE [k \in DOMAIN vs \cup {version} |->
             IF k = version THEN FromYaml(yaml) ELSE vs[k]]

\* Policies::add_from_yaml(version, yaml)
AddFromYaml(version, yaml) ==
    /\ versions' = Inserted(versions, version, yaml)
    /\ yaml_load' = [version |-> version, yaml |-> yaml,
                     result |-> IF FromYamlFails(yaml) THEN "error" ELSE "ok",
                     before |-> versions]
    /\ UNCHANGED <<endpointVars, opVars, ioVars, borrowed, panicked,
                   current_path, req, login, ast, authVars>>

\* ------------------------------------------------------ user authorization

\* Paths as std::path::Path holds them, by their components after the root.
AuthRoot == <<>>
AuthUsers == <<"users">>
AuthUsersAdmin == <<"users", "admin">>
AuthUsersAdminAudit == <<"users", "admin", "audit">>
AuthPosts == <<"posts">>
\* The paths the endpoints entries of a policy document name.
AuthKeys == {AuthRoot, AuthUsers, AuthUsersAdmin}
\* The paths requests arrive at.
AuthPaths == {AuthUsers, AuthUsersAdmin, AuthUsersAdminAudit, AuthPosts}

\* The users regexes of the endpoints entries: "^a", "^b", "^" and "^$".
UserRegexes ==
    { RegexNew(<<"^", "a">>), RegexNew(<<"^", "b">>), RegexNew(<<"^">>),
      RegexNew(<<"^", "$">>) }

\* Option<String> usernames: None, Some(""), Some("al"), Some("bo").
NoUsername == [some |-> FALSE, name |-> <<>>]
SomeUsername(name) == [some |-> TRUE, name |-> name]
Usernames ==
    {NoUsername, SomeUsername(<<>>), SomeUsername(<<"a", "l">>),
     SomeUsername(<<"b", "o">>)}

\* PrefixMap::default()
NoPaths == <<>>

\* Path::starts_with, component by component.
StartsWith(path, prefix) ==
    /\ Len(prefix) <= Len(path)
    /\ SubSeq(path, 1, Len(prefix)) = prefix

\* PrefixMap::insert: the value stored for k is v afterwards.
PrefixInsert(m, k, v) ==
    [q \in DOMAIN m \cup {k} |-> IF q = k THEN v ELSE m[q]]

\* The keys of m that are prefixes of path.
Prefixes(m, path) == {k \in DOMAIN m : StartsWith(path, k)}

\* The shortest key of m that is a prefix of path.
LongestPrefixShortest(m, path) ==
    CHOOSE k \in Prefixes(m, path) :
        \A q \in Prefixes(m, path) : Len(q) >= Len(k)

\* PrefixMap::longest_prefix(path), where some key is a prefix of path.
LongestPrefix(m, path) ==
    CHOOSE k \in Prefixes(m, path) :
        \A q \in Prefixes(m, path) : Len(q) <= Len(k)

\* UserAuthorization::is_allowed(username, path)
IsAllowed(m, username, path) ==
    IF Prefixes(m, path) = {} THEN TRUE
    ELSE IF ~username.some THEN FALSE
    ELSE IsMatch(m[LongestPrefix(m, path)], username.name)

NoAuthCall ==
    [op |-> "none", path |-> <<>>, users |-> RegexEmpty,
     username |-> NoUsername, result |-> "none", before |-> NoPaths]

\* UserAuthorization::add(path, users): the insert comes first, the error
\* after it when the insert returned the value stored before.
Add(path, users) ==
    /\ user_authorization' = PrefixInsert(user_authorization, path, users)
    /\ auth_call' = [op |-> "add", path |-> path, users |-> users,
                     username |-> NoUsername,
                     result |-> IF path \in DOMAIN user_authorization
                                THEN "error" ELSE "ok",
                     before |-> user_authorization]
    /\ UNCHANGED <<endpointVars, opVars, ioVars, borrowed, panicked,
                   current_path, req, login, ast, versions, yaml_load>>

\* A call of is_allowed(username, path) on the authorization built so far.
IsAllowedCall(username, path) ==
    /\ auth_call' = [op |-> "is_allowed", path |-> path,
                     users |-> RegexEmpty, username |-> username,
                     result |-> IF IsAllowed(user_authorization, username,
                                             path)
                                THEN "true" ELSE "false",
                     before |-> user_authorization]
    /\ UNCHANGED <<endpointVars, opVars, ioVars, borrowed, panicked,
                   current_path, req, login, ast, versions, yaml_load,
                   user_authorization>>

\* The entity type User { name, email @pii, ssn @secret, owner @own }.
UserType ==
    [name |-> "User", fields |-> {"name", "email", "ssn", "owner"},
     labels |-> [f \in {"name", "email", "ssn", "owner"} |->
                    CASE f = "email" -> {"pii"}
                      [] f = "ssn"   -> {"secret"}
                      [] f = "owner" -> {"own"}
                      [] OTHER       -> {}]]

\* The users a caller can be authenticated as; NoUser: not logged in.
NoUser == <<>>
Logins == {NoUser, <<"alice">>, <<"bob">>}

\* The fields of ty a policy of the given kind applies to on this path.
PolicyFields(ty, path, kind) ==
    {f \in ty.fields :
        \E l \in ty.labels[f] :
            /\ l \in DOMAIN LabelPolicies
            /\ LabelPolicies[l].kind = kind
            /\ ~IsMatch(LabelPolicies[l].except_uri, path)}

\* runtime.get_policies(&ty, &mut policies, path): the FieldPolicies of a
\* type for a request path.
GetPolicies(ty, path) ==
    [transforms |-> [f \in PolicyFields(ty, path, "Transform") |-> "anonymize"],
     match_login |-> PolicyFields(ty, path, "MatchLogin")]

NoPolicies == [transforms |-> <<>>, match_login |-> {}]

\* The rows of the entity type in the order a cursor of find_all(User)
\* yields them: the NumRows rows the table starts with, then the rows
\* op_chisel_store adds.  The cursor is lazy: it yields the next row the
\* table holds when it is read, and once it has yielded its end it stays
\* at its end.
Rows == [i \in 1..(NumRows + MaxStored) |->
            [id |-> <<i>>, name |-> <<"n", i>>, email |-> <<"e", i>>,
             ssn |-> <<"s", i>>,
             owner |-> IF i % 2 = 1 THEN <<"alice">> ELSE <<"bob">>]]

\* query::engine::row_to_json: the JSON object of the type's fields.
RowToJson(ty, row) == [f \in ty.fields |-> row[f]]

NoRow == [f \in UserType.fields |-> <<>>]

\* A projection that transforms every field of the row.
ApplyPoliciesAll(policies, v) == [f \in DOMAIN v |-> anonymize(v[f])]

\* for (field, xform) in &resource.policies { v[field] = xform(v[field].take()) }
ApplyPolicies(policies, v) ==
    [f \in DOMAIN v |->
        IF f \in DOMAIN policies.transforms
        THEN Xform(policies.transforms[f], v[f])
        ELSE v[f]]

\* A projection by the policies of the path current at the read.
ProjectRowCurrentPath(res, row) ==
    ApplyPolicies(GetPolicies(UserType, current_path),
                  RowToJson(UserType, row))

\* The value query_next answers with for the row at the cursor.
ProjectRow(res, row) == ApplyPolicies(res.policies, RowToJson(UserType, row))

\* --------------------------------------------------------- resource table
\* BodyResource { body, cancel } as the resource table holds it.
\*   open: the table holds the resource; it leaves the table by a close,
\*         which cancels the cancel handle
\*   busy: a read_body holds body.borrow_mut() and awaits data
\*   read: what the last read_body on it returned
BodyResource(r) ==
    [kind |-> "body", owner |-> r, open |-> TRUE, busy |-> FALSE,
     read |-> "none", asked |-> NoPath, path |-> NoPath,
     policies |-> NoPolicies, pos |-> 0, ended |-> FALSE, out |-> NoRow]

\* QueryStreamResource { stream, policies, ty }.
\*   asked: the path of the request whose script called query_create
\*   path:  CURRENT_REQUEST_PATH as query_create read it
\*   pos, ended: the state of the cursor inside stream: the rows it has
\*          yielded, and whether it has yielded its end
\*   busy:  a query_next holds stream.borrow_mut() and awaits the cursor
\*   read:  how the last query_next on it returned: "row", "none", "error"
\*          ("unread": no query_next has returned);  out: the row returned
QueryStreamResource(asked, path) ==
    [kind |-> "rows", owner |-> NoTask, open |-> TRUE, busy |-> FALSE,
     read |-> "unread", asked |-> asked, path |-> path,
     policies |-> GetPolicies(UserType, path), pos |-> 0, ended |-> FALSE,
     out |-> NoRow]

\* Resources in the table plus the one a pending query_create will add.
Allocated == Len(resources) + (IF pending_create = NoTask THEN 0 ELSE 1)

\* ----------------------------------------------------------------- run_js
Methods == {"GET", "HEAD", "POST"}

\* What the handler's promise settles to, as run_js_aux tells the cases
\* apart after get_result: a rejection, a value that is no object, a value
\* without a usable body / status / headers, a status StatusCode::from_u16
\* refuses, or a well-formed Response.
Settlements == {"rejected", "not_object", "no_body", "no_status",
                "no_headers", "bad_status", "response"}

\* The error run_js_aux returns for a settlement ("ok": it returns Ok).
SettleResult(k) ==
    CASE k = "rejected"   -> "HandlerError"
      [] k = "not_object" -> "NotAResponse"
      [] k = "no_body"    -> "NotAResponse"
      [] k = "no_status"  -> "NotAResponse"
      [] k = "no_headers" -> "NotAResponse"
      [] k = "bad_status" -> "InvalidStatus"
      [] OTHER            -> "ok"

\* A Request of any method gets a body.
HasBodyAlways(m) == TRUE

\* method != Method::GET && method != Method::HEAD
HasBody(m) == m # "GET" /\ m # "HEAD"

\* The bound on the resource table: a request of method m is dispatched
\* while the table holds fewer than cap resources, if it brings a body.
Room(m, cap) == HasBody(m) => Allocated < cap

\* run_js_aux up to the first await inside get_result: borrow the service,
\* unwrap the handler, set the current path, build the Request (registering
\* the body for a method other than GET and HEAD) and call the handler.
\* utf8 tells whether every request header is valid UTF-8; call is
\* "returns" when the handler call yields a value and "throws" when it
\* yields none.
RequestStart(r, p, m, utf8, call) ==
    /\ Running
    /\ req[r].pc = "idle"
    /\ r > 1 => req[r - 1].pc # "idle"
    /\ IF borrowed # NoTask
       THEN Panic("already borrowed")
       ELSE IF ~handlers[p].present
       THEN Panic("unwrap on no handler")
       ELSE IF ~handlers[p].func.some
       THEN Panic("unwrap on no func")
       ELSE /\ current_path' = p
            /\ resources' = IF utf8 /\ HasBody(m)
                            THEN Append(resources, BodyResource(r))
                            ELSE resources
            /\ IF ~utf8 \/ call = "throws"
               THEN /\ req' = [req EXCEPT ![r] =
                          [IdleReq EXCEPT !.pc = "failed", !.path = p]]
                    /\ UNCHANGED borrowed
               ELSE /\ req' = [req EXCEPT ![r] =
                          [IdleReq EXCEPT !.pc = "handler", !.path = p,
                              !.func = handlers[p].func]]
                    /\ borrowed' = r
            /\ UNCHANGED <<endpointVars, panicked, pending_create, stored, store_op>>

\* A run_js_aux that drops the endpoint's function when the request fails.
HandlerSettlePoison(r, k) ==
    /\ Running
    /\ req[r].pc = "handler"
    /\ borrowed = r
    /\ current_path' = req[r].path
    /\ borrowed' = NoTask
    /\ req' = [req EXCEPT ![r].pc = IF SettleResult(k) = "ok"
                                     THEN "streaming" ELSE "failed",
                          ![r].func = IF SettleResult(k) = "ok"
                                      THEN req[r].func ELSE NoFunc]
    /\ handlers' = IF SettleResult(k) = "ok" THEN handlers
                   ELSE [handlers EXCEPT ![req[r].path].func = NoFunc]
    /\ UNCHANGED <<code_map, modules, def, ndefs, panicked, opVars>>

\* The poll of RequestFuture in which the handler's promise settles, and
\* the rest of run_js_aux.
HandlerSettle(r, k) ==
    /\ Running
    /\ req[r].pc = "handler"
    /\ borrowed = r
    /\ current_path' = req[r].path
    /\ borrowed' = NoTask
    /\ req' = [req EXCEPT ![r].pc = IF SettleResult(k) = "ok"
                                     THEN "streaming" ELSE "failed",
                          ![r].func = IF SettleResult(k) = "ok"
                                      THEN req[r].func ELSE NoFunc]
    /\ UNCHANGED <<endpointVars, panicked, opVars>>

\* One pull of the response body up to the await in get_read_future:
\* borrow the service and call reader.read().
StreamPull(r) ==
    /\ Running
    /\ req[r].pc = "streaming"
    /\ IF borrowed # NoTask
       THEN Panic("already borrowed")
       ELSE /\ borrowed' = r
            /\ req' = [req EXCEPT ![r].pc = "pulling"]
            /\ UNCHANGED <<endpointVars, panicked, current_path, opVars>>

\* The poll of get_read_future in which the promise of read() settles.
Pulls == {"chunk", "done", "error"}

\* A stream whose end takes the request's body out of the resource table.
PullSettleCloses(r, out) ==
    /\ Running
    /\ req[r].pc = "pulling"
    /\ borrowed = r
    /\ borrowed' = NoTask
    /\ req' = [req EXCEPT ![r].pc = CASE out = "chunk" -> "streaming"
                                      [] out = "done"  -> "done"
                                      [] OTHER         -> "failed",
                          ![r].func = IF out = "chunk" THEN req[r].func
                                      ELSE NoFunc]
    /\ resources' = [rid \in 1..Len(resources) |->
                        IF resources[rid].owner = r /\ out # "chunk"
                        THEN [resources[rid] EXCEPT !.open = FALSE]
                        ELSE resources[rid]]
    /\ UNCHANGED <<endpointVars, panicked, current_path, pending_create, stored, store_op>>

PullSettle(r, out) ==
    /\ Running
    /\ req[r].pc = "pulling"
    /\ borrowed = r
    /\ borrowed' = NoTask
    /\ req' = [req EXCEPT ![r].pc = CASE out = "chunk" -> "streaming"
                                      [] out = "done"  -> "done"
                                      [] OTHER         -> "failed",
                          ![r].func = IF out = "chunk" THEN req[r].func
                                      ELSE NoFunc]
    /\ UNCHANGED <<endpointVars, panicked, current_path, opVars>>

\* The client disconnects: the response stream is dropped, and with it the
\* get_read_future in flight and its borrow.  The resource table is not
\* touched.
StreamDrop(r) ==
    /\ Running
    /\ req[r].pc \in {"streaming", "pulling"}
    /\ borrowed' = IF borrowed = r THEN NoTask ELSE borrowed
    /\ req' = [req EXCEPT ![r].pc = "dropped", ![r].func = NoFunc]
    /\ UNCHANGED <<endpointVars, panicked, current_path, opVars>>

\* --------------------------------------------------------------- host ops
\* The script of request t runs, and the VM's pending ops are polled, while
\* t polls the runtime: inside resolve_value, with the service borrowed.
Polling(t) == borrowed = t

\* CURRENT_REQUEST_PATH during a poll by t.  The handler's promise is
\* polled through RequestFuture, which sets the path first; the promise of
\* read() in get_read_future, and the import of define_endpoint, are polled
\* as they are.
PollPath(t) ==
    IF t \in Requests /\ req[t].pc = "handler" THEN req[t].path
    ELSE current_path

\* runtime::get() answers at once: no op holds the runtime.  A store holds
\* it from its lookup of the type to the return of add_row.
RuntimeFree == store_op.pc # "add_row"

\* The script of r calls chisel_query_create({type_name: "User"}): the op
\* is queued and awaits runtime::get().
QueryCreate(r) ==
    /\ Running
    /\ Polling(r)
    /\ pending_create = NoTask
    /\ Allocated < MaxRid
    /\ pending_create' = r
    /\ current_path' = PollPath(r)
    /\ UNCHANGED <<endpointVars, borrowed, panicked, req, resources, stored, store_op>>

\* op_chisel_query_create after runtime::get(), in a poll of the runtime by
\* task t: read the current path, build the policies, add the resource.
QueryCreateRun(t) ==
    /\ Running
    /\ Polling(t)
    /\ pending_create # NoTask
    /\ RuntimeFree
    /\ resources' = Append(resources,
                           QueryStreamResource(req[pending_create].path,
                                               PollPath(t)))
    /\ pending_create' = NoTask
    /\ current_path' = PollPath(t)
    /\ UNCHANGED <<endpointVars, borrowed, panicked, req, stored, store_op>>

\* What stream.next() yields to a query_next: a row, a row that
\* row_to_json does not convert ("json error"), an error of the database,
\* or none.
CursorItems == {"row", "json error", "error", "none"}

\* A cursor that reads the table anew on every poll, its end reported or
\* not.
CursorYieldsUnfused(res) ==
    IF res.pos >= NumRows + stored THEN {"none", "error"}
    ELSE {"row", "json error", "error"}

\* What the cursor of find_all / find_all_by can yield next.  It walks the
\* rows of the table, those stored since the query included, and an error
\* of the database may take the place of any item; once it has yielded
\* none it yields none on every later poll.
CursorYields(res) ==
    IF res.ended THEN {"none"}
    ELSE IF res.pos >= NumRows + stored THEN {"none", "error"}
    ELSE {"row", "json error", "error"}

\* The cursor after it yielded item: one row further, or at its end.
CursorAfter(res, item) ==
    IF item = "none" THEN [res EXCEPT !.ended = TRUE]
    ELSE [res EXCEPT !.pos = res.pos + 1]

\* The resource once op_chisel_query_next has returned for an item that is
\* no error of the database: Ok(Some(v)) with the row projected, the error
\* of row_to_json, or Ok(None).  The op keeps nothing but what the stream
\* keeps.
StreamNext(res, item) ==
    CASE item = "row" ->
            [CursorAfter(res, item) EXCEPT
                !.out = ProjectRow(res, Rows[res.pos + 1]), !.read = "row"]
      [] item = "json error" ->
            [CursorAfter(res, item) EXCEPT !.out = NoRow, !.read = "error"]
      [] OTHER ->
            [CursorAfter(res, item) EXCEPT !.out = NoRow, !.read = "none"]

\* op_chisel_query_next(rid) up to its await, issued by the script of t:
\* borrow the stream and wait for the cursor.
QueryNext(t, rid) ==
    /\ Running
    /\ Polling(t)
    /\ rid \in 1..Len(resources)
    /\ resources[rid].kind = "rows"
    /\ resources[rid].open
    /\ IF resources[rid].busy
       THEN Panic("stream already borrowed")
       ELSE /\ resources' = [resources EXCEPT ![rid].busy = TRUE]
            /\ current_path' = PollPath(t)
            /\ UNCHANGED <<endpointVars, borrowed, panicked, req,
                           pending_create, stored, store_op>>

\* The cursor yields item and the op completes in a poll of the runtime by
\* task t: row.unwrap() panics on an error of the database; a row that
\* row_to_json rejects is consumed and the op returns the error; otherwise
\* the op returns the row projected, or none.  The op holds its own Rc of
\* the resource: it completes whether or not the table still holds it.
QueryNextDone(t, rid, item) ==
    /\ Running
    /\ Polling(t)
    /\ rid \in 1..Len(resources)
    /\ resources[rid].kind = "rows"
    /\ resources[rid].busy
    /\ item \in CursorYields(resources[rid])
    /\ IF item = "error"
       THEN Panic("unwrap on cursor error")
       ELSE /\ resources' = [resources EXCEPT ![rid] =
                 [StreamNext(resources[rid], item) EXCEPT !.busy = FALSE]]
            /\ current_path' = PollPath(t)
            /\ UNCHANGED <<endpointVars, borrowed, panicked, req,
                           pending_create, stored, store_op>>

\* op_chisel_read_body(rid) up to its await, issued by the script of t:
\* borrow the body and wait for data or for the cancel handle.
ReadBody(t, rid) ==
    /\ Running
    /\ Polling(t)
    /\ rid \in 1..Len(resources)
    /\ resources[rid].kind = "body"
    /\ resources[rid].open
    /\ IF resources[rid].busy
       THEN Panic("body already borrowed")
       ELSE /\ resources' = [resources EXCEPT ![rid].busy = TRUE]
            /\ current_path' = PollPath(t)
            /\ UNCHANGED <<endpointVars, borrowed, panicked, req,
                           pending_create, stored, store_op>>

\* What data().or_cancel(cancel) resolves to: data, the end of the body,
\* an I/O error, or Canceled once the cancel handle was cancelled.
BodyReads == {"data", "eof", "error", "cancelled"}

\* The read in flight resolves and the op completes, releasing the body,
\* in a poll of the runtime by task t.  The op holds its own Rc of the
\* resource: it completes whether or not the table still holds it.
ReadBodyDone(t, rid, got) ==
    /\ Running
    /\ Polling(t)
    /\ rid \in 1..Len(resources)
    /\ resources[rid].kind = "body"
    /\ resources[rid].busy
    /\ got = "cancelled" <=> ~resources[rid].open
    /\ resources' = [resources EXCEPT ![rid].busy = FALSE, ![rid].read = got]
    /\ current_path' = PollPath(t)
    /\ UNCHANGED <<endpointVars, borrowed, panicked, req, pending_create, stored, store_op>>

\* The script of t closes rid: the entry leaves the table and
\* Resource::close runs, which for a body cancels the cancel handle and for
\* a row stream does nothing.  An op in flight on the resource keeps its
\* borrow until it completes in a later poll.
CloseResource(t, rid) ==
    /\ Running
    /\ Polling(t)
    /\ rid \in 1..Len(resources)
    /\ resources[rid].open
    /\ resources' = [resources EXCEPT ![rid].open = FALSE]
    /\ current_path' = PollPath(t)
    /\ UNCHANGED <<endpointVars, borrowed, panicked, req, pending_create, stored, store_op>>

\* The argument of chisel_query_create: type_name and field_name, each a
\* string, absent ("<absent>") or a value that is no string ("<number>"),
\* and whether the query engine builds the query.
Content(type_name, field_name, engine) ==
    [type_name |-> type_name, field_name |-> field_name, engine |-> engine]
Contents ==
    { Content("User", "<absent>", "ok"),
      Content("User", "email", "ok"),
      Content("<absent>", "<absent>", "ok"),
      Content("<number>", "email", "ok"),
      Content("User", "<number>", "ok"),
      Content("Ghost", "<absent>", "ok"),
      Content("User", "email", "QueryError") }

NoContent == [type_name |-> "<absent>", field_name |-> "<absent>",
              engine |-> "ok"]
NoOp == [op |-> "none", rid |-> 0, content |-> NoContent, result |-> "none"]
NoStore == [pc |-> "none", content |-> NoContent]

\* A lookup that knows every type name.
LookupObjectTypeAny(name) == TRUE

\* type_system.lookup_object_type(name) answers Ok.
LookupObjectType(name) == name = UserType.name

\* What op_chisel_query_create returns before resource_table.add: the
\* first error on its way, or "ok".
QueryCreateOutcome(content) ==
    IF content.type_name \in {"<absent>", "<number>"} THEN "JsonField"
    ELSE IF content.field_name = "<number>" THEN "JsonField"
    ELSE IF ~LookupObjectType(content.type_name) THEN "UnknownType"
    ELSE IF content.engine # "ok" THEN "QueryError"
    ELSE "ok"

\* The content fails the checks op_chisel_query_create makes before it
\* awaits runtime::get().
JsonFieldError(content) ==
    \/ content.type_name \in {"<absent>", "<number>"}
    \/ content.field_name = "<number>"

\* op_chisel_query_create(content) up to its await, issued by the script
\* of t: the JsonField error at once, or the op queued on runtime::get().
QueryCreateCall(t, content) ==
    /\ Running
    /\ Polling(t)
    /\ pending_create = NoTask
    /\ Allocated < MaxRid
    /\ IF JsonFieldError(content)
       THEN /\ op_result' = [op |-> "query_create", rid |-> 0,
                             content |-> content,
                             result |-> QueryCreateOutcome(content)]
            /\ UNCHANGED <<pending_create, create_content>>
       ELSE /\ pending_create' = t
            /\ create_content' = content
            /\ UNCHANGED op_result
    /\ current_path' = PollPath(t)
    /\ UNCHANGED <<endpointVars, envVars, borrowed, panicked, req,
                   resources, stored, store_op, request_init, read_log, body_out,
                   closed_poll, handler_result, outbound>>

\* op_chisel_query_create after runtime::get(), in a poll of the runtime by
\* task t: the error of lookup_object_type or of the query engine, or the
\* resource added with the policies of the path then current.
QueryCreateResume(t) ==
    /\ Running
    /\ Polling(t)
    /\ pending_create # NoTask
    /\ RuntimeFree
    /\ IF QueryCreateOutcome(create_content) = "ok"
       THEN /\ resources' = Append(resources,
                                   QueryStreamResource(
                                       req[pending_create].path, PollPath(t)))
            /\ UNCHANGED op_result
       ELSE /\ op_result' = [op |-> "query_create", rid |-> 0,
                             content |-> create_content,
                             result |-> QueryCreateOutcome(create_content)]
            /\ UNCHANGED resources
    /\ pending_create' = NoTask
    /\ create_content' = NoContent
    /\ current_path' = PollPath(t)
    /\ UNCHANGED <<endpointVars, envVars, borrowed, panicked, req, stored, store_op,
                   request_init, read_log, body_out, closed_poll,
                   handler_result, outbound>>

\* The argument of chisel_store: name a known type, an unknown one or no
\* string, and whether add_row takes the value.
StoreUser == Content("User", "<absent>", "ok")
StoreContents ==
    { StoreUser,
      Content("Ghost", "<absent>", "ok"),
      Content("<number>", "<absent>", "ok"),
      Content("User", "<absent>", "QueryError") }

\* What op_chisel_store returns: Error::TypeName for a name that is no
\* string, the error of lookup_object_type, the error of add_row, or "ok".
StoreOutcome(content) ==
    IF content.type_name \in {"<absent>", "<number>"} THEN "TypeName"
    ELSE IF ~LookupObjectType(content.type_name) THEN "UnknownType"
    ELSE IF content.engine # "ok" THEN "QueryError"
    ELSE "ok"

StoreError(content) ==
    [op |-> "store", rid |-> 0, content |-> content,
     result |-> StoreOutcome(content)]

\* op_chisel_store(content) up to its first await, issued by the script of
\* t: Error::TypeName at once, or the op queued on runtime::get().  One
\* store is in flight at a time, and MaxStored rows are stored at most.
Store(t, content) ==
    /\ Running
    /\ Polling(t)
    /\ store_op.pc = "none"
    /\ stored < MaxStored
    /\ IF StoreOutcome(content) = "TypeName"
       THEN /\ op_result' = StoreError(content)
            /\ UNCHANGED store_op
       ELSE /\ store_op' = [pc |-> "lock", content |-> content]
            /\ UNCHANGED op_result
    /\ current_path' = PollPath(t)
    /\ UNCHANGED <<endpointVars, envVars, borrowed, panicked, req,
                   resources, pending_create, stored, request_init,
                   read_log, body_out, closed_poll, handler_result,
                   create_content, outbound>>

\* op_chisel_store from runtime::get() to its second await, in a poll of
\* the runtime by task t: the error of lookup_object_type, or add_row
\* called and awaited with the runtime held.
StoreLocked(t) ==
    /\ Running
    /\ Polling(t)
    /\ store_op.pc = "lock"
    /\ IF StoreOutcome(store_op.content) = "UnknownType"
       THEN /\ op_result' = StoreError(store_op.content)
            /\ store_op' = NoStore
       ELSE /\ store_op' = [store_op EXCEPT !.pc = "add_row"]
            /\ UNCHANGED op_result
    /\ current_path' = PollPath(t)
    /\ UNCHANGED <<endpointVars, envVars, borrowed, panicked, req,
                   resources, pending_create, stored, request_init,
                   read_log, body_out, closed_poll, handler_result,
                   create_content, outbound>>

\* add_row answers and op_chisel_store returns, in a poll of the runtime
\* by task t: the row is in the table, or the error of the engine is
\* returned; the runtime is released.
StoreDone(t) ==
    /\ Running
    /\ Polling(t)
    /\ store_op.pc = "add_row"
    /\ IF StoreOutcome(store_op.content) = "ok"
       THEN /\ stored' = stored + 1
            /\ UNCHANGED op_result
       ELSE /\ op_result' = StoreError(store_op.content)
            /\ UNCHANGED stored
    /\ store_op' = NoStore
    /\ current_path' = PollPath(t)
    /\ UNCHANGED <<endpointVars, envVars, borrowed, panicked, req,
                   resources, pending_create, request_init, read_log,
                   body_out, closed_poll, handler_result, create_content,
                   outbound>>

\* resource_table.get::<T>(rid) answers Ok: the id is in the table and
\* names a resource of the op's type.
HasResource(op, rid) ==
    /\ rid \in 1..Len(resources)
    /\ resources[rid].open
    /\ resources[rid].kind = IF op = "query_next" THEN "rows" ELSE "body"

\* op_chisel_query_next(rid) / op_chisel_read_body(rid), issued by the
\* script of t, when resource_table.get(rid)? returns the error.
BadResourceId(t, op, rid) ==
    /\ Running
    /\ Polling(t)
    /\ ~HasResource(op, rid)
    /\ op_result' = [op |-> op, rid |-> rid, content |-> NoContent,
                     result |-> "BadResource"]
    /\ current_path' = PollPath(t)
    /\ UNCHANGED <<endpointVars, opVars, envVars, borrowed, panicked, req,
                   request_init, read_log, body_out, closed_poll,
                   handler_result, create_content, outbound>>

\* ---------------------------------------------------- chiselc: the ast
\* swc_ecmascript::ast, as far as the rewriter tells nodes apart; spans are
\* left out.  Expressions:
Ident(sym) == [t |-> "Ident", sym |-> sym]
Lit(v) == [t |-> "Lit", value |-> v]
MemberExpr(obj, prop) == [t |-> "Member", obj |-> obj, prop |-> prop]
CallExpr(callee, args) == [t |-> "Call", callee |-> callee, args |-> args]
ArrowExpr(params, body) == [t |-> "Arrow", params |-> params, body |-> body]
AwaitExpr(arg) == [t |-> "Await", arg |-> arg]
BinExpr(op, left, right) ==
    [t |-> "Bin", op |-> op, left |-> left, right |-> right]
ObjectLit(props) == [t |-> "Object", props |-> props]
KeyValueProp(key, value) == [key |-> key, value |-> value]

\* Statements: Stmt::Expr, Stmt::Decl(Decl::Var) with one declarator,
\* Stmt::Decl(Decl::Fn), Stmt::Return, Stmt::Block.
ExprStmt(expr) == [t |-> "Expr", expr |-> expr]
VarDecl(name, init) == [t |-> "Var", name |-> name, init |-> init]
FnDecl(name, stmts) == [t |-> "Fn", name |-> name, stmts |-> stmts]
ReturnStmt(arg) == [t |-> "Return", arg |-> arg]
BlockStmt(stmts) == [t |-> "Block", stmts |-> stmts]

\* Module declarations: export default function, export default <expr>,
\* export function <name>.
ExportDefaultFn(stmts) == [t |-> "ExportDefaultFn", stmts |-> stmts]
ExportDefaultExpr(expr) == [t |-> "ExportDefaultExpr", expr |-> expr]
ExportFn(name, stmts) == [t |-> "ExportFn", name |-> name, stmts |-> stmts]
ModuleDeclKinds == {"ExportDefaultFn", "ExportDefaultExpr", "ExportFn"}

\* ------------------------------------------- chiselc: filter inference
\* Symbols: the names that resolve to entity collections.
EntityNames == {"Users"}

\* The operators a predicate may use and the query operators they lower to.
BinaryOp(op) ==
    CASE op = "==" -> "Eq"   [] op = "!=" -> "NotEq"
      [] op = "<"  -> "Lt"   [] op = "<=" -> "LtEq"
      [] op = ">"  -> "Gt"   [] op = ">=" -> "GtEq"
      [] op = "&&" -> "And"  [] op = "||" -> "Or"
      [] OTHER -> "none"

\* Every node of the predicate body is a comparison or logical operator, a
\* property access, an identifier or a literal.
RECURSIVE Lowerable(_)
Lowerable(e) ==
    CASE e.t = "Bin"    -> /\ BinaryOp(e.op) # "none"
                           /\ Lowerable(e.left) /\ Lowerable(e.right)
      [] e.t = "Member" -> Lowerable(e.obj)
      [] e.t = "Ident"  -> TRUE
      [] e.t = "Lit"    -> TRUE
      [] OTHER          -> FALSE

\* query::Expr of a lowerable predicate body.
RECURSIVE LowerExpr(_)
LowerExpr(e) ==
    CASE e.t = "Bin" ->
            [q |-> "BinaryExpr", op |-> BinaryOp(e.op),
             left |-> LowerExpr(e.left), right |-> LowerExpr(e.right)]
      [] e.t = "Member" ->
            [q |-> "PropertyAccess", object |-> LowerExpr(e.obj),
             property |-> e.prop]
      [] e.t = "Ident" -> [q |-> "Identifier", ident |-> e.sym]
      [] OTHER -> [q |-> "Literal", value |-> e.value]

\* An infer_filter that takes the first argument for the predicate and
\* lets further arguments pass.
IsFilterAnyArity(call) ==
    /\ call.callee.t = "Member"
    /\ call.callee.prop = "filter"
    /\ call.callee.obj.t = "Ident"
    /\ call.callee.obj.sym \in EntityNames
    /\ Len(call.args) >= 1
    /\ call.args[1].t = "Arrow"
    /\ call.args[1].body.t # "Block"
    /\ Lowerable(call.args[1].body)

\* infer_filter answers Some for this call: X.filter(pred) with X an
\* entity collection and pred, the one argument, an arrow function with a
\* lowerable body.
IsFilter(call) ==
    /\ call.callee.t = "Member"
    /\ call.callee.prop = "filter"
    /\ call.callee.obj.t = "Ident"
    /\ call.callee.obj.sym \in EntityNames
    /\ Len(call.args) = 1
    /\ call.args[1].t = "Arrow"
    /\ call.args[1].body.t # "Block"
    /\ Lowerable(call.args[1].body)

\* infer_filter(call_expr, symbols) when it answers Some: the Filter.
InferFilter(call) ==
    [predicate |-> LowerExpr(call.args[1].body),
     parameters |-> call.args[1].params]

\* ------------------------------------------------- chiselc: the rewriter
\* params.iter().position(|param| param == ident), counted from 0; -1: None
PositionFromOne(params, ident) ==
    IF \E i \in 1..Len(params) : params[i] = ident
    THEN CHOOSE i \in 1..Len(params) :
             /\ params[i] = ident
             /\ \A j \in 1..(i - 1) : params[j] # ident
    ELSE -1

Position(params, ident) ==
    IF \E i \in 1..Len(params) : params[i] = ident
    THEN (CHOOSE i \in 1..Len(params) :
              /\ params[i] = ident
              /\ \A j \in 1..(i - 1) : params[j] # ident) - 1
    ELSE -1

MakeExprType(expr_type) == KeyValueProp("exprType", Lit(expr_type))

\* binary_op_to_ts
BinaryOpToTs(op) ==
    CASE op = "And" -> Lit("And")     [] op = "Eq" -> Lit("Eq")
      [] op = "Gt" -> Lit("Gt")       [] op = "GtEq" -> Lit("GtEq")
      [] op = "Lt" -> Lit("Lt")       [] op = "LtEq" -> Lit("LtEq")
      [] op = "NotEq" -> Lit("NotEq") [] OTHER -> Lit("Or")

\* expr_to_ts with binary_expr_to_ts, property_access_to_ts,
\* identifier_to_ts and literal_to_ts.
RECURSIVE ExprToTs(_, _)
ExprToTs(q, params) ==
    CASE q.q = "BinaryExpr" ->
            ObjectLit(<< MakeExprType("Binary"),
                         KeyValueProp("left", ExprToTs(q.left, params)),
                         KeyValueProp("op", BinaryOpToTs(q.op)),
                         KeyValueProp("right", ExprToTs(q.right, params)) >>)
      [] q.q = "PropertyAccess" ->
            ObjectLit(<< MakeExprType("Property"),
                         KeyValueProp("object", ExprToTs(q.object, params)),
                         KeyValueProp("property", Lit(q.property)) >>)
      [] q.q = "Identifier" ->
            IF Position(params, q.ident) >= 0
            THEN ObjectLit(<< MakeExprType("Parameter"),
                              KeyValueProp("position",
                                           Lit(Position(params, q.ident))) >>)
            ELSE ObjectLit(<< MakeExprType("Identifier"),
                              KeyValueProp("ident", Lit(q.ident)) >>)
      [] OTHER ->
            ObjectLit(<< MakeExprType("Literal"),
                         KeyValueProp("value", Lit(q.value)) >>)

FilterToTs(filter) == ExprToTs(filter.predicate, filter.parameters)

\* rewrite_filter_callee: the member's prop becomes __filterWithExpression.
RewriteFilterCallee(callee) ==
    [callee EXCEPT !.prop = "__filterWithExpression"]

\* to_ts_expr: the new callee, the arguments cloned, the expression
\* appended.
ToTsExpr(call, filter) ==
    CallExpr(RewriteFilterCallee(call.callee),
             Append(call.args, FilterToTs(filter)))

RECURSIVE RewriteExpr(_), RewriteStmt(_)

\* rewrite_block_stmt
RewriteBlockStmt(stmts) == [i \in 1..Len(stmts) |-> RewriteStmt(stmts[i])]

\* A rewriter that renames the callee of a call it could not lower.
RewriteCallExprPartial(call) ==
    IF IsFilter(call)
    THEN ToTsExpr(call, InferFilter(call))
    ELSE CallExpr(IF call.callee.t = "Member" /\ call.callee.prop = "filter"
                  THEN RewriteFilterCallee(RewriteExpr(call.callee))
                  ELSE RewriteExpr(call.callee),
                  [i \in 1..Len(call.args) |-> RewriteExpr(call.args[i])])

\* rewrite_call_expr (with rewrite_callee and rewrite_expr_or_spread)
RewriteCallExpr(call) ==
    IF IsFilter(call)
    THEN ToTsExpr(call, InferFilter(call))
    ELSE CallExpr(RewriteExpr(call.callee),
                  [i \in 1..Len(call.args) |-> RewriteExpr(call.args[i])])

\* rewrite_arrow_expr
RewriteArrowExpr(e) ==
    ArrowExpr(e.params,
              IF e.body.t = "Block"
              THEN BlockStmt(RewriteBlockStmt(e.body.stmts))
              ELSE RewriteExpr(e.body))

\* rewrite_expr (with rewrite_await_expr and rewrite_member_expr)
RewriteExpr(e) ==
    CASE e.t = "Arrow"  -> RewriteArrowExpr(e)
      [] e.t = "Await"  -> AwaitExpr(RewriteExpr(e.arg))
      [] e.t = "Call"   -> RewriteCallExpr(e)
      [] e.t = "Member" -> MemberExpr(RewriteExpr(e.obj), e.prop)
      [] OTHER          -> e

\* rewrite_stmt (with rewrite_decl and rewrite_var_declarator)
RewriteStmt(stmt) ==
    CASE stmt.t = "Var"  -> VarDecl(stmt.name, RewriteExpr(stmt.init))
      [] stmt.t = "Expr" -> ExprStmt(RewriteExpr(stmt.expr))
      [] OTHER           -> stmt

\* rewrite_module_decl (with rewrite_fn_expr)
RewriteModuleDecl(decl) ==
    IF decl.t = "ExportDefaultFn"
    THEN ExportDefaultFn(RewriteBlockStmt(decl.stmts))
    ELSE decl

\* rewrite_item
RewriteItem(item) ==
    IF item.t \in ModuleDeclKinds THEN RewriteModuleDecl(item)
    ELSE RewriteStmt(item)

\* Rewriter::rewrite
Rewrite(module) == [i \in 1..Len(module) |-> RewriteItem(module[i])]

\* The modules given to the rewriter.  Predicates:
\*   u => u.age >= 18 && u.name == "a"      (lowerable)
\*   u => u.isAdult()                       (not lowerable)
PredLowerable ==
    ArrowExpr(<<"u">>,
              BinExpr("&&",
                      BinExpr(">=", MemberExpr(Ident("u"), "age"), Lit(18)),
                      BinExpr("==", MemberExpr(Ident("u"), "name"), Lit("a"))))
PredOpaque ==
    ArrowExpr(<<"u">>, CallExpr(MemberExpr(Ident("u"), "isAdult"), <<>>))

\*   u => u.age >= 18 && u.isAdult()        (lowerable in part)
PredMixed ==
    ArrowExpr(<<"u">>,
              BinExpr("&&",
                      BinExpr(">=", MemberExpr(Ident("u"), "age"), Lit(18)),
                      CallExpr(MemberExpr(Ident("u"), "isAdult"), <<>>)))

\*   (u, i, u) => u.age >= i || u == k      (lowerable; a name twice among
\*                                           the parameters, k free)
PredParams ==
    ArrowExpr(<<"u", "i", "u">>,
              BinExpr("||",
                      BinExpr(">=", MemberExpr(Ident("u"), "age"), Ident("i")),
                      BinExpr("==", Ident("u"), Ident("k"))))

\* Users.filter(<lowerable>)
FilterCall == CallExpr(MemberExpr(Ident("Users"), "filter"), <<PredLowerable>>)

\* Besides the filter calls on Users with each predicate: a predicate that
\* is itself a filter call, filter calls with a further argument (a filter
\* call, a name), a filter call on the result of a filter call, a filter
\* on a name that is no entity, and filter calls under await, as the
\* object of a call, as an argument and in the block of an arrow function.
SampleExprs ==
    { FilterCall,
      CallExpr(MemberExpr(Ident("Users"), "filter"),
               <<PredLowerable, FilterCall>>),
      CallExpr(MemberExpr(Ident("Users"), "filter"),
               <<PredOpaque, Ident("self")>>),
      CallExpr(MemberExpr(FilterCall, "filter"), <<PredLowerable>>),
      CallExpr(MemberExpr(Ident("Users"), "filter"), <<PredOpaque>>),
      CallExpr(MemberExpr(Ident("Users"), "filter"), <<PredMixed>>),
      CallExpr(MemberExpr(Ident("Users"), "filter"), <<PredParams>>),
      CallExpr(MemberExpr(Ident("Users"), "filter"),
               <<ArrowExpr(<<"u">>, FilterCall)>>),
      CallExpr(MemberExpr(Ident("xs"), "filter"), <<PredLowerable>>),
      AwaitExpr(FilterCall),
      CallExpr(MemberExpr(FilterCall, "map"),
               <<ArrowExpr(<<"u">>, MemberExpr(Ident("u"), "name"))>>),
      CallExpr(Ident("f"), <<FilterCall>>),
      ArrowExpr(<<>>, BlockStmt(<<ExprStmt(FilterCall)>>)) }

SampleStmts ==
    {ExprStmt(e) : e \in SampleExprs}
        \cup { VarDecl("v", FilterCall),
               VarDecl("v", Ident("x")),
               ReturnStmt(FilterCall),
               BlockStmt(<<ExprStmt(FilterCall)>>),
               FnDecl("g", <<ExprStmt(FilterCall)>>) }

SampleItems ==
    SampleStmts
        \cup { ExportDefaultFn(<<VarDecl("v", FilterCall), ReturnStmt(Ident("v"))>>),
               ExportDefaultFn(<<ReturnStmt(FilterCall)>>),
               ExportDefaultExpr(ArrowExpr(<<"req">>, FilterCall)),
               ExportFn("g", <<ExprStmt(FilterCall)>>) }

SampleModules ==
    UNION {[1..n -> SampleItems] : n \in 1..MaxItems}

\* The rewriter's work on one module: the module parsed, the result of
\* Rewriter::rewrite on it, and the result of rewrite on that result.
NoAst == [stage |-> "none", module |-> <<>>, once |-> <<>>, twice |-> <<>>]

ParseModule(m) ==
    /\ ast.stage = "none"
    /\ ast' = [ast EXCEPT !.stage = "parsed", !.module = m]
    /\ UNCHANGED <<endpointVars, opVars, ioVars, borrowed, panicked,
                   current_path, req, login, versions, yaml_load, authVars>>

RewriteModule ==
    /\ ast.stage = "parsed"
    /\ ast' = [ast EXCEPT !.stage = "rewritten", !.once = Rewrite(ast.module)]
    /\ UNCHANGED <<endpointVars, opVars, ioVars, borrowed, panicked,
                   current_path, req, login, versions, yaml_load, authVars>>

RewriteAgain ==
    /\ ast.stage = "rewritten"
    /\ ast' = [ast EXCEPT !.stage = "rewritten twice",
                          !.twice = Rewrite(ast.once)]
    /\ UNCHANGED <<endpointVars, opVars, ioVars, borrowed, panicked,
                   current_path, req, login, versions, yaml_load, authVars>>

\* --------------------------------------------------------- specifications
\* Nothing has crossed the boundary of the VM yet.
NoInit == [method |-> "none", body |-> 0]
NoResult ==
    [value |-> [object |-> FALSE, body |-> "absent",
                status |-> [kind |-> "absent", tenths |-> 0],
                headers |-> "absent"],
     returned |-> "none", status |-> 0]
NoResponse == [built |-> FALSE, handler |-> <<>>, headers |-> <<>>]
InitIo ==
    /\ request_init = [r \in Requests |-> NoInit]
    /\ read_log = [r \in Requests |-> <<>>]
    /\ body_out = [r \in Requests |-> <<>>]
    /\ closed_poll = [r \in Requests |-> "none"]
    /\ handler_result = [r \in Requests |-> NoResult]
    /\ op_result = NoOp
    /\ create_content = NoContent
    /\ outbound = NoResponse

Init ==
    /\ handlers = [p \in Paths |-> VacantHandler]
    /\ code_map = [p \in Paths |-> NoCode]
    /\ modules = {}
    /\ borrowed = NoTask
    /\ panicked = "none"
    /\ current_path = NoPath
    /\ def = IdleDef
    /\ ndefs = 0
    /\ req = [r \in Requests |-> IdleReq]
    /\ resources = <<>>
    /\ pending_create = NoTask
    /\ stored = 0
    /\ store_op = NoStore
    /\ login = NoUser
    /\ ast = NoAst
    /\ versions = <<>>
    /\ yaml_load = NoLoad
    /\ user_authorization = NoPaths
    /\ auth_call = NoAuthCall
    /\ InitIo

DefineNext ==
    \/ \E p \in Paths, c \in Codes : DefineStart(p, c)
    \/ \E p \in Paths, c \in Codes : DefineStartSecond(p, c)
    \/ DefineFinish

\* The steps of the request tasks, for requests of the methods ms and a
\* resource table of up to cap resources.
RequestSteps(ms, cap) ==
    \/ \E r \in Requests, p \in Paths, m \in ms, utf8 \in BOOLEAN,
          call \in {"returns", "throws"} :
             Room(m, cap) /\ RequestStart(r, p, m, utf8, call)
    \/ \E r \in Requests, k \in Settlements : HandlerSettle(r, k)
    \/ \E r \in Requests : StreamPull(r)
    \/ \E r \in Requests, out \in Pulls : PullSettle(r, out)
    \/ \E r \in Requests : StreamDrop(r)

\* Endpoint definition and request dispatch on one VM thread.
Next ==
    /\ \/ DefineNext
       \/ RequestSteps(Methods, MaxRid)
    /\ UNCHANGED <<envVars, ioVars>>

Spec == Init /\ [][Next]_vars

\* The state after define_endpoint has loaded "h1" at both paths.
InitOps ==
    /\ handlers = [p \in Paths |-> VersionedHandler(0, SomeFunc(p, 0, "h1"))]
    /\ code_map = [p \in Paths |-> NoCode]
    /\ modules = {Module(EndpointUrl(p, 0), "h1") : p \in Paths}
    /\ borrowed = NoTask
    /\ panicked = "none"
    /\ current_path = NoPath
    /\ def = [pc |-> "idle", path |-> PathAdmin, version |-> 0,
              code |-> "h1", result |-> "ok"]
    /\ ndefs = 2
    /\ req = [r \in Requests |-> IdleReq]
    /\ resources = <<>>
    /\ pending_create = NoTask
    /\ stored = 0
    /\ store_op = NoStore
    /\ login \in Logins
    /\ ast = NoAst
    /\ versions = <<>>
    /\ yaml_load = NoLoad
    /\ user_authorization = NoPaths
    /\ auth_call = NoAuthCall
    /\ InitIo

\* The same with every request authenticated as one user.  No host op reads
\* the user: the policies of a row stream follow the path alone.
InitOpsUser == InitOps /\ login = <<"alice">>

\* Endpoint definition and requests, with the imports of the endpoint
\* sources and of the handlers.
NextLoader ==
    /\ \/ DefineNext
       \/ \E r \in Requests, p \in Paths :
             RequestStart(r, p, "GET", TRUE, "returns")
       \/ \E r \in Requests : HandlerSettle(r, "response")
       \/ \E url \in Specifiers, fetched \in FetchOutcomes :
             ImportModule(url, fetched)
    /\ UNCHANGED <<envVars, ioVars>>

SpecLoader == Init /\ [][NextLoader]_vars

\* Requests without a body and the row streams their scripts open, in
\* their handlers and in the pulls of their response bodies, and the rows
\* they store.
NextOps ==
    \/ /\ \/ \E r \in Requests, p \in Paths :
             RequestStart(r, p, "GET", TRUE, "returns")
          \/ \E r \in Requests : HandlerSettle(r, "response")
          \/ \E r \in Requests : StreamPull(r)
          \/ \E r \in Requests : PullSettle(r, "chunk")
          \/ \E r \in Requests : QueryCreate(r)
          \/ \E t \in Requests : QueryCreateRun(t)
          \/ \E t \in Requests, rid \in 1..MaxRid : QueryNext(t, rid)
          \/ \E t \in Requests, rid \in 1..MaxRid,
                item \in {"row", "error", "none"} : QueryNextDone(t, rid, item)
       /\ UNCHANGED <<envVars, ioVars>>
    \/ \E t \in Requests : Store(t, StoreUser)
    \/ \E t \in Requests : StoreLocked(t)
    \/ \E t \in Requests : StoreDone(t)

SpecOps == InitOpsUser /\ [][NextOps]_vars

\* Requests with a body to one endpoint, one body resource each, and the
\* reads and closes of their scripts on the bodies in the table.
NextBody ==
    /\ \/ \E r \in Requests, utf8 \in BOOLEAN :
             RequestStart(r, PathUsers, "POST", utf8, "returns")
       \/ \E r \in Requests, k \in {"rejected", "response"} :
             HandlerSettle(r, k)
       \/ \E r \in Requests : StreamPull(r)
       \/ \E r \in Requests, out \in {"chunk", "done"} : PullSettle(r, out)
       \/ \E r \in Requests : StreamDrop(r)
       \/ \E t \in Requests, rid \in 1..MaxReq : ReadBody(t, rid)
       \/ \E t \in Requests, rid \in 1..MaxReq, got \in BodyReads :
             ReadBodyDone(t, rid, got)
       \/ \E t \in Requests, rid \in 1..MaxReq : CloseResource(t, rid)
    /\ UNCHANGED <<envVars, ioVars>>

SpecBody == InitOpsUser /\ [][NextBody]_vars

\* ------------------------------------------------- the boundary of the VM
\* The VM with both endpoints loaded and nobody logged in.
InitServe == InitOps /\ login = NoUser

\* run_js_aux can take the handler of p without a panic.
Dispatchable(p) ==
    borrowed = NoTask /\ handlers[p].present /\ handlers[p].func.some

\* The init object get_result_aux passes to new Request(url, init): the
\* method, and for a request with a body the stream built over the resource
\* id of the body (0: no body key).
RequestInit(m, rid) == [method |-> m, body |-> IF HasBody(m) THEN rid ELSE 0]

\* RequestStart with the Request it builds: none when the service cannot be
\* entered or a header is not UTF-8, which returns before the body is
\* registered.
RequestBuild(r, p, m, utf8, call) ==
    /\ RequestStart(r, p, m, utf8, call)
    /\ request_init' = IF Dispatchable(p) /\ utf8
                       THEN [request_init EXCEPT
                                ![r] = RequestInit(m, Len(resources) + 1)]
                       ELSE request_init
    /\ UNCHANGED <<envVars, read_log, body_out, closed_poll, handler_result,
                   op_result, outbound,
                   create_content>>

\* The steps of a request after its dispatch.
ServeSteps ==
    \/ \E r \in Requests, k \in Settlements : HandlerSettle(r, k)
    \/ \E r \in Requests : StreamPull(r)
    \/ \E r \in Requests, out \in Pulls : PullSettle(r, out)
    \/ \E r \in Requests : StreamDrop(r)

\* Requests of every method and the Request objects built for them.
NextRequest ==
    \/ \E r \in Requests, p \in Paths, m \in Methods, utf8 \in BOOLEAN,
          call \in {"returns", "throws"} :
             Room(m, MaxRid) /\ RequestBuild(r, p, m, utf8, call)
    \/ ServeSteps /\ UNCHANGED <<envVars, ioVars>>

SpecRequest == InitServe /\ [][NextRequest]_vars

\* What the promise of reader.read() settles to: {done: false, value: view}
\* with the bytes of the view, {done: true}, or something get_read_future
\* gives an error for (a rejection, a result that is no object, a value that
\* is no ArrayBufferView).
Chunks == {<<1>>, <<2, 3>>}
ReadResults ==
    {[kind |-> "chunk", value |-> c] : c \in Chunks}
        \cup {[kind |-> "done", value |-> <<>>],
              [kind |-> "error", value |-> <<>>]}

\* A copy that stops after the first byte of the view.
CopyChunkShort(view) ==
    [i \in 1..Len(view) |-> IF i = 1 THEN view[i] ELSE 0]

\* vec![0; value.byte_length()] filled by value.copy_contents(&mut buffer).
CopyChunk(view) == [i \in 1..Len(view) |-> view[i]]

\* PullSettle with the result of read() and the item the stream yields for
\* it.
ReadResult(r, res) ==
    /\ res.kind = "chunk" => Len(body_out[r]) < MaxChunks
    /\ PullSettle(r, res.kind)
    /\ read_log' = [read_log EXCEPT ![r] = Append(@, res)]
    /\ body_out' = IF res.kind = "chunk"
                   THEN [body_out EXCEPT ![r] = Append(@, CopyChunk(res.value))]
                   ELSE body_out
    /\ UNCHANGED <<envVars, request_init, closed_poll, handler_result,
                   op_result, outbound,
                   create_content>>

\* The stream of get_read_stream polled after get_read_future has returned
\* Ok(None) or Err: try_unfold holds neither a state nor a future then and
\* yields None, without calling get_read_future.
PollClosed(r) ==
    /\ Running
    /\ req[r].pc \in {"done", "failed"}
    /\ Len(read_log[r]) >= 1
    /\ read_log[r][Len(read_log[r])].kind \in {"done", "error"}
    /\ closed_poll' = [closed_poll EXCEPT ![r] = "end of stream"]
    /\ UNCHANGED <<endpointVars, opVars, envVars, borrowed, panicked,
                   current_path, req, request_init, read_log, body_out,
                   handler_result, op_result, outbound,
                   create_content>>

\* Requests without a body to one endpoint and the bodies of their
\* responses.
NextStream ==
    \/ /\ \/ \E r \in Requests, utf8 \in BOOLEAN,
                call \in {"returns", "throws"} :
                   RequestStart(r, PathUsers, "GET", utf8, call)
          \/ \E r \in Requests, k \in Settlements : HandlerSettle(r, k)
          \/ \E r \in Requests : StreamPull(r)
          \/ \E r \in Requests : StreamDrop(r)
       /\ UNCHANGED <<envVars, ioVars>>
    \/ \E r \in Requests, res \in ReadResults : ReadResult(r, res)
    \/ \E r \in Requests : PollClosed(r)

SpecStream == InitServe /\ [][NextStream]_vars

\* http::HeaderName of a name: its lower-case form.
HeaderName(name) ==
    CASE name = "Access-Control-Allow-Origin"  -> "access-control-allow-origin"
      [] name = "Access-Control-Allow-Methods" -> "access-control-allow-methods"
      [] name = "Access-Control-Allow-Headers" -> "access-control-allow-headers"
      [] name = "Content-Type"                 -> "content-type"
      [] OTHER -> name

\* An insert that replaces what the map holds.
OrInsertReplace(h, name, value) ==
    (HeaderName(name) :> value) @@ h

\* headers.entry(name).or_insert(value)
OrInsert(h, name, value) ==
    IF HeaderName(name) \in DOMAIN h THEN h
    ELSE (HeaderName(name) :> value) @@ h

\* The header map of the Response run_js_aux returns for a handler's
\* response whose headers.entries() yields hs.
WithCors(hs) ==
    OrInsert(
        OrInsert(
            OrInsert(hs, "Access-Control-Allow-Origin", "*"),
            "Access-Control-Allow-Methods", "POST, PUT, GET, OPTIONS"),
        "Access-Control-Allow-Headers", "Content-Type")

BuildResponse(hs) == [built |-> TRUE, handler |-> hs, headers |-> WithCors(hs)]

\* The header maps of the handlers' responses: Headers.entries() yields
\* lower-case names.
HeaderChoices ==
    [n \in {"access-control-allow-origin", "access-control-allow-methods",
            "access-control-allow-headers", "content-type"} |->
        CASE n = "access-control-allow-origin"  -> {"https://a.example", ""}
          [] n = "access-control-allow-methods" -> {"GET"}
          [] n = "access-control-allow-headers" -> {"X-Token"}
          [] OTHER                              -> {"text/plain"}]

HandlerHeaders ==
    UNION {{h \in [ns -> UNION {HeaderChoices[n] : n \in ns}] :
               \A n \in ns : h[n] \in HeaderChoices[n]} :
           ns \in SUBSET DOMAIN HeaderChoices}

\* HandlerSettle with the Response it returns for a well-formed response
\* of the handler.
Respond(r, k, hs) ==
    /\ HandlerSettle(r, k)
    /\ outbound' = IF SettleResult(k) = "ok" THEN BuildResponse(hs)
                   ELSE outbound
    /\ UNCHANGED <<envVars, request_init, read_log, body_out, closed_poll,
                   handler_result, op_result,
                   create_content>>

\* Requests without a body and the responses returned for them.
NextResponse ==
    \/ /\ \/ \E r \in Requests, p \in Paths, utf8 \in BOOLEAN,
                call \in {"returns", "throws"} :
                   RequestStart(r, p, "GET", utf8, call)
          \/ \E r \in Requests : StreamPull(r)
          \/ \E r \in Requests, out \in Pulls : PullSettle(r, out)
          \/ \E r \in Requests : StreamDrop(r)
       /\ UNCHANGED <<envVars, ioVars>>
    \/ \E r \in Requests, k \in Settlements, hs \in HandlerHeaders :
          Respond(r, k, hs)

SpecResponse == InitServe /\ [][NextResponse]_vars

\* The value the handler's promise resolves to.  object: the value converts
\* to an object; body: a ReadableStream, null, absent, or a string; status:
\* absent, a string, NaN, or a number given in tenths (2005: 200.5);
\* headers: a Headers object, absent, or an object without entries().
StatusNumbers == {990, 1000, 2000, 2005, 9990, 9999, 10000, -10, 655360,
                  657360}
Number(tenths) == [kind |-> "number", tenths |-> tenths]
NotNumber(kind) == [kind |-> kind, tenths |-> 0]
HandlerResult(object, body, status, headers) ==
    [object |-> object, body |-> body, status |-> status,
     headers |-> headers]
WellFormed(status) == HandlerResult(TRUE, "stream", status, "headers")
HandlerResults ==
    {WellFormed(Number(n)) : n \in StatusNumbers}
        \cup { WellFormed(NotNumber("NaN")),
               HandlerResult(FALSE, "absent", NotNumber("absent"), "absent"),
               HandlerResult(TRUE, "absent", Number(2000), "headers"),
               HandlerResult(TRUE, "null", Number(2000), "headers"),
               HandlerResult(TRUE, "string", Number(2000), "headers"),
               HandlerResult(TRUE, "stream", NotNumber("absent"), "headers"),
               HandlerResult(TRUE, "stream", NotNumber("string"), "headers"),
               HandlerResult(TRUE, "stream", Number(2000), "absent"),
               HandlerResult(TRUE, "stream", Number(2000), "no entries") }

\* status.value() as u16 of a number: the fraction dropped, the result
\* clamped to 0..65535, NaN to 0.
AsU16(status) ==
    IF status.kind = "NaN" THEN 0
    ELSE LET t == IF status.tenths >= 0 THEN status.tenths \div 10
                  ELSE -((-status.tenths) \div 10)
         IN IF t < 0 THEN 0 ELSE IF t > 65535 THEN 65535 ELSE t

\* A conversion that accepts every code.
FromU16OkAny(code) == TRUE

\* StatusCode::from_u16(code) answers Ok.
FromU16Ok(code) == code >= 100 /\ code < 1000

\* The settlement run_js_aux sees, in the order it looks: the value as an
\* object, body and its reader (get_read_stream), status, headers and
\* their entries, then the status code.
Settlement(res) ==
    IF ~res.object THEN "not_object"
    ELSE IF res.body # "stream" THEN "no_body"
    ELSE IF res.status.kind \in {"absent", "string"} THEN "no_status"
    ELSE IF res.headers # "headers" THEN "no_headers"
    ELSE IF ~FromU16Ok(AsU16(res.status)) THEN "bad_status"
    ELSE "response"

\* HandlerSettle for a handler that resolved to res, with what run_js_aux
\* returned for it.
Settle(r, res) ==
    /\ HandlerSettle(r, Settlement(res))
    /\ handler_result' =
          [handler_result EXCEPT ![r] =
              [value |-> res,
               returned |-> IF SettleResult(Settlement(res)) = "ok"
                            THEN "response" ELSE "error",
               status |-> IF SettleResult(Settlement(res)) = "ok"
                          THEN AsU16(res.status) ELSE 0]]
    /\ UNCHANGED <<envVars, request_init, read_log, body_out, closed_poll,
                   op_result, outbound,
                   create_content>>

\* Host ops that fail, among requests with and without a body whose
\* scripts open and read row streams and store rows.
NextOpErrors ==
    \/ /\ \/ \E r \in Requests, m \in {"GET", "POST"} :
                /\ Room(m, MaxRid)
                /\ RequestStart(r, PathUsers, m, TRUE, "returns")
          \/ \E r \in Requests : HandlerSettle(r, "response")
          \/ \E t \in Requests, rid \in 1..MaxRid : QueryNext(t, rid)
          \/ \E t \in Requests, rid \in 1..MaxRid,
                item \in {"row", "json error", "none"} :
                   QueryNextDone(t, rid, item)
       /\ UNCHANGED <<envVars, ioVars>>
    \/ \E t \in Requests, content \in Contents : QueryCreateCall(t, content)
    \/ \E t \in Requests : QueryCreateResume(t)
    \/ \E t \in Requests, content \in StoreContents : Store(t, content)
    \/ \E t \in Requests : StoreLocked(t)
    \/ \E t \in Requests : StoreDone(t)
    \/ \E t \in Requests, op \in {"query_next", "read_body"},
          rid \in {1, MaxRid + 1} : BadResourceId(t, op, rid)

SpecOpErrors == InitOpsUser /\ [][NextOpErrors]_vars

\* Requests without a body to one endpoint and what their handlers
\* resolve to.
NextResult ==
    \/ /\ \E r \in Requests, utf8 \in BOOLEAN, call \in {"returns", "throws"} :
             RequestStart(r, PathUsers, "GET", utf8, call)
       /\ UNCHANGED <<envVars, ioVars>>
    \/ \E r \in Requests, res \in HandlerResults : Settle(r, res)

SpecResult == InitServe /\ [][NextResult]_vars

\* chiselc on one module.
NextRewrite ==
    \/ \E m \in SampleModules : ParseModule(m)
    \/ RewriteModule
    \/ RewriteAgain

SpecRewrite == Init /\ [][NextRewrite]_vars

\* Policy documents loaded one after another.
NextPolicies ==
    \E version \in VersionNames, yaml \in YamlDocs : AddFromYaml(version, yaml)

SpecPolicies == Init /\ [][NextPolicies]_vars

\* Endpoints entries added to one authorization, and requests checked
\* against it.
NextAuth ==
    \/ \E path \in AuthKeys, users \in UserRegexes : Add(path, users)
    \/ \E username \in Usernames, path \in AuthPaths :
          IsAllowedCall(username, path)

SpecAuth == Init /\ [][NextAuth]_vars

\* ------------------------------------------------------------------ claims
LoadFailures == {"EndpointLoadError", "EndpointShapeError"}

\* A define_endpoint call for p begins in this step.
StartsDefine(p) == def.pc = "idle" /\ def'.pc = "importing" /\ def'.path = p

\* C1: a define_endpoint call for a path leaves its entry at version 0 if
\* the path was vacant and at the previous version + 1 otherwise, and no
\* other step changes the version or removes the entry.
C1_VersionsAdvance ==
    [][\A p \in Paths :
        /\ StartsDefine(p) =>
              /\ handlers'[p].present
              /\ handlers'[p].version =
                    IF handlers[p].present THEN handlers[p].version + 1 ELSE 0
        /\ ~StartsDefine(p) =>
              /\ handlers'[p].present = handlers[p].present
              /\ handlers'[p].version = handlers[p].version]_vars

\* A path defined twice, the first load having failed, stands at version 1.
C1_Witness ==
    \E p \in Paths :
        /\ handlers[p].present /\ handlers[p].version = 1
        /\ Module(EndpointUrl(p, 0), "throw") \in modules
        /\ def.pc = "idle" /\ def.path = p

\* C2 (as claimed): the path query_create read for a row stream is the path
\* of the request whose script opened it.
C2_CreateSeesOwnPath ==
    \A rid \in 1..Len(resources) :
        resources[rid].kind = "rows" =>
            resources[rid].path = resources[rid].asked

\* C3 (as claimed): dispatching a request to a path that is vacant or whose
\* function is none does not take the VM thread down.
C3_UnloadedIsRecoverable ==
    panicked \notin {"unwrap on no handler", "unwrap on no func"}

\* C4 (as claimed): a task that enters the VM while another task is
\* suspended in it does not fail.
C4_EntryDuringSuspension == panicked # "already borrowed"

\* C5: after a define_endpoint call that failed, the entry of its path is
\* at the version the call chose with no function, and the next call for
\* the path chooses that version + 1.
C5_FailedLoadKeepsVersion ==
    /\ [](def.pc = "idle" /\ def.result \in LoadFailures =>
             handlers[def.path] = VersionedHandler(def.version, NoFunc))
    /\ [][(def.pc = "idle" /\ def.result \in LoadFailures
             /\ StartsDefine(def.path)) =>
             def'.version = def.version + 1]_vars

\* A call that failed at version 1 on a path whose version 0 was loaded.
C5_Witness ==
    /\ def.pc = "idle" /\ def.result \in LoadFailures
    /\ def.version = 1
    /\ \E c \in {"h1", "h2"} : Module(EndpointUrl(def.path, 0), c) \in modules

\* C6: the handler a request obtains at dispatch is the default export of
\* the module installed at the current version of its path, and when the
\* last define_endpoint call was for that path, that call succeeded and the
\* handler is built from its source.
C6_DispatchLatestHandler ==
    [][\A r \in Requests :
        (req[r].pc = "idle" /\ req'[r].pc = "handler") =>
            LET p == req'[r].path
                f == req'[r].func
            IN /\ f.some
               /\ f.path = p
               /\ f.ver = handlers[p].version
               /\ Module(EndpointUrl(p, f.ver), f.code) \in modules
               /\ def.path = p => (def.result = "ok" /\ f.code = def.code)]_vars

\* A request runs the handler of version 1 of a path whose version 0 was
\* loaded from another source.
C6_Witness ==
    \E r \in Requests :
        /\ req[r].pc = "handler"
        /\ req[r].func.ver = 1 /\ req[r].func.code = "h2"
        /\ Module(EndpointUrl(req[r].path, 0), "h1") \in modules

\* C7 (as claimed): the VM never holds a module loaded from a url outside
\* the reserved prefix.
C7_OnlyPrefixLoads == \A m \in modules : HasDummyPrefix(m.url)

\* C8: a step in which a request fails leaves the endpoint table as it was.
C8_FailureKeepsTable ==
    [][\A r \in Requests :
        (req[r].pc # "failed" /\ req'[r].pc = "failed") =>
            handlers' = handlers]_vars

\* A request has failed and the endpoint of its path is still loaded.
C8_Witness ==
    \E r \in Requests :
        /\ req[r].pc = "failed"
        /\ handlers[req[r].path].func.some

\* C9 (as claimed): once the response stream of a request is dropped, no
\* read_body on that request's body is left waiting.
C9_DropCancelsRead ==
    \A rid \in 1..Len(resources) :
        (resources[rid].kind = "body"
            /\ req[resources[rid].owner].pc = "dropped") =>
            ~resources[rid].busy

\* C10: a row stream holds the policies of the path query_create read, and
\* every row query_next answered with is the stored row projected by those
\* policies.
C10_PoliciesCaptured ==
    \A rid \in 1..Len(resources) :
        LET res == resources[rid] IN
        res.kind = "rows" =>
            /\ res.policies = GetPolicies(UserType, res.path)
            /\ res.out # NoRow =>
                  /\ res.pos >= 1
                  /\ res.out = ApplyPolicies(GetPolicies(UserType, res.path),
                                             RowToJson(UserType, Rows[res.pos]))

\* A row stream has answered with a row while the current path calls for
\* other policies than the path it was created under.
C10_Witness ==
    \E rid \in 1..Len(resources) :
        /\ resources[rid].kind = "rows"
        /\ resources[rid].out # NoRow
        /\ GetPolicies(UserType, current_path) # resources[rid].policies

\* The rows a row stream has answered with: its resource, when the last
\* query_next on it returned a row.
Answered(rid) ==
    /\ rid \in 1..Len(resources)
    /\ resources[rid].kind = "rows"
    /\ resources[rid].out # NoRow

\* C11 (as claimed): in every row query_next returns, each field under a
\* match_login policy equals the user the caller is authenticated as.
C11_MismatchSkipped ==
    \A rid \in 1..MaxRid :
        Answered(rid) =>
            \A f \in resources[rid].policies.match_login :
                resources[rid].out[f] = login

\* C12: in every row query_next returns, a field with a transform in the
\* resource's policies holds the transform of the converted row's value and
\* every other field holds the converted row's value.
C12_TransformsApplied ==
    \A rid \in 1..MaxRid :
        Answered(rid) =>
            LET res == resources[rid]
                json == RowToJson(UserType, Rows[res.pos])
            IN \A f \in UserType.fields :
                  res.out[f] = IF f \in DOMAIN res.policies.transforms
                               THEN Xform(res.policies.transforms[f], json[f])
                               ELSE json[f]

\* A returned row with a transformed field and an untouched labelled field.
C12_Witness ==
    \E rid \in 1..MaxRid :
        /\ Answered(rid)
        /\ resources[rid].out["ssn"] = <<"xxxxx">>
        /\ resources[rid].out["email"] = Rows[resources[rid].pos].email
        /\ resources[rid].out["name"] = Rows[resources[rid].pos].name

\* C13 (as claimed): an error of the row cursor does not take the VM thread
\* down.
C13_CursorErrorReturned == panicked # "unwrap on cursor error"

C15_ExemptByRequestPath ==
    \A rid \in 1..MaxRid :
        Answered(rid) =>
            LET res == resources[rid] IN
            /\ res.out["email"] =
                  IF IsMatch(LabelPolicies["pii"].except_uri, res.asked)
                  THEN Rows[res.pos].email
                  ELSE <<"xxxxx">>
            /\ res.out["ssn"] = <<"xxxxx">>

\* C16: the chunks a response stream has yielded are the values of the
\* results read() returned, in order and byte for byte; a result that is
\* not a chunk is the last one, and read() is pending or still to be called
\* only when every result so far was a chunk.
C16_BodyIsChunksRead ==
    \A r \in Requests :
        LET log == read_log[r] IN
        /\ \A i \in 1..(Len(log) - 1) : log[i].kind = "chunk"
        /\ req[r].pc \in {"streaming", "pulling"} =>
              \A i \in 1..Len(log) : log[i].kind = "chunk"
        /\ LET n == Cardinality({i \in 1..Len(log) : log[i].kind = "chunk"})
           IN body_out[r] = [i \in 1..n |-> log[i].value]

\* A response whose reader returned two different chunks and then done.
C16_Witness ==
    \E r \in Requests :
        /\ req[r].pc = "done"
        /\ Len(read_log[r]) = 3
        /\ read_log[r][3].kind = "done"
        /\ body_out[r] = <<read_log[r][1].value, read_log[r][2].value>>
        /\ Len(body_out[r][1]) # Len(body_out[r][2])

\* C17: the Request built for a GET or HEAD request has no body and no
\* resource is registered for the request; the Request built for any other
\* method has as body the one resource registered for the request, a body
\* resource; and no other body resource exists.
C17_BodyIffNotGetHead ==
    /\ \A r \in Requests :
          request_init[r] # NoInit =>
              IF request_init[r].method \in {"GET", "HEAD"}
              THEN /\ request_init[r].body = 0
                   /\ \A rid \in 1..Len(resources) :
                         resources[rid].owner # r
              ELSE /\ request_init[r].body \in 1..Len(resources)
                   /\ resources[request_init[r].body].kind = "body"
                   /\ \A rid \in 1..Len(resources) :
                         resources[rid].owner = r <=>
                             rid = request_init[r].body
    /\ \A rid \in 1..Len(resources) :
          /\ resources[rid].kind = "body"
          /\ request_init[resources[rid].owner].body = rid

\* A Request without a body and a Request with one have been built.
C17_Witness ==
    \E r1, r2 \in Requests :
        /\ request_init[r1].method \in {"GET", "HEAD"}
        /\ request_init[r2].method = "POST"
        /\ request_init[r2].body = Len(resources)

\* C18: a Response that was returned carries the three CORS headers, each
\* with the value of the handler's response if that has the header and
\* with its default otherwise.
C18_CorsDefaults ==
    outbound.built =>
        \A d \in {<<"access-control-allow-origin", "*">>,
                  <<"access-control-allow-methods", "POST, PUT, GET, OPTIONS">>,
                  <<"access-control-allow-headers", "Content-Type">>} :
            /\ d[1] \in DOMAIN outbound.headers
            /\ outbound.headers[d[1]] =
                  IF d[1] \in DOMAIN outbound.handler
                  THEN outbound.handler[d[1]]
                  ELSE d[2]

\* A Response whose handler set the origin, to the empty string, and left
\* the allowed methods to the default.
C18_Witness ==
    /\ outbound.built
    /\ "access-control-allow-origin" \in DOMAIN outbound.handler
    /\ outbound.headers["access-control-allow-origin"] = ""
    /\ "access-control-allow-methods" \notin DOMAIN outbound.handler

\* A call X.filter(pred) with X an entity collection and pred lowerable
\* occurs somewhere in the expression / statement / module item.
RECURSIVE FilterLeftInExpr(_), FilterLeftInStmt(_)
FilterLeftInExpr(e) ==
    CASE e.t = "Call" ->
            \/ IsFilter(e)
            \/ FilterLeftInExpr(e.callee)
            \/ \E i \in 1..Len(e.args) : FilterLeftInExpr(e.args[i])
      [] e.t = "Member" -> FilterLeftInExpr(e.obj)
      [] e.t = "Await"  -> FilterLeftInExpr(e.arg)
      [] e.t = "Arrow"  ->
            IF e.body.t = "Block"
            THEN \E i \in 1..Len(e.body.stmts) : FilterLeftInStmt(e.body.stmts[i])
            ELSE FilterLeftInExpr(e.body)
      [] e.t = "Bin"    -> FilterLeftInExpr(e.left) \/ FilterLeftInExpr(e.right)
      [] e.t = "Object" ->
            \E i \in 1..Len(e.props) : FilterLeftInExpr(e.props[i].value)
      [] OTHER -> FALSE

FilterLeftInStmt(st) ==
    CASE st.t = "Expr"   -> FilterLeftInExpr(st.expr)
      [] st.t = "Var"    -> FilterLeftInExpr(st.init)
      [] st.t = "Return" -> FilterLeftInExpr(st.arg)
      [] st.t = "ExportDefaultExpr" -> FilterLeftInExpr(st.expr)
      [] OTHER -> \E i \in 1..Len(st.stmts) : FilterLeftInStmt(st.stmts[i])

\* C19 (as claimed): the module the rewriter returns holds no call
\* X.filter(pred) with X an entity collection and pred lowerable: every one
\* of them, wherever it stood, has become X.__filterWithExpression.
C19_EveryFilterRewritten ==
    ast.stage # "none" /\ ast.stage # "parsed" =>
        \A i \in 1..Len(ast.once) : ~FilterLeftInStmt(ast.once[i])

\* C20: the rewriter applied to its own result returns that result.
C20_RewriteIdempotent ==
    ast.stage = "rewritten twice" => ast.twice = ast.once

\* A module with a lowered filter call, and one with a filter call of two
\* arguments that kept its callee while the filter call that is its second
\* argument was lowered, has gone through the second pass.
C20_Witness ==
    /\ ast.stage = "rewritten twice"
    /\ \E i \in 1..Len(ast.once) :
          /\ ast.module[i] = ExprStmt(FilterCall)
          /\ ast.once[i].expr.callee.prop = "__filterWithExpression"
          /\ Len(ast.once[i].expr.args) = 2
    /\ \E i \in 1..Len(ast.once) :
          /\ ast.module[i] =
                ExprStmt(CallExpr(MemberExpr(Ident("Users"), "filter"),
                                  <<PredLowerable, FilterCall>>))
          /\ ast.once[i].expr.callee.prop = "filter"
          /\ Len(ast.once[i].expr.args) = 2
          /\ ast.once[i].expr.args[2].callee.prop = "__filterWithExpression"

\* Some node of the expression is none of the nodes a predicate may be
\* made of: an operator of comparison or logic, a property access, an
\* identifier, a literal.
RECURSIVE HasOpaqueNode(_)
HasOpaqueNode(e) ==
    CASE e.t = "Bin"    -> \/ BinaryOp(e.op) = "none"
                           \/ HasOpaqueNode(e.left)
                           \/ HasOpaqueNode(e.right)
      [] e.t = "Member" -> HasOpaqueNode(e.obj)
      [] e.t \in {"Ident", "Lit"} -> FALSE
      [] OTHER          -> TRUE

\* A call X.filter(pred) on an entity collection whose predicate, an arrow
\* function, has a node that is not lowerable.
UnloweredFilter(e) ==
    /\ e.t = "Call"
    /\ e.callee.t = "Member"
    /\ e.callee.prop = "filter"
    /\ e.callee.obj.t = "Ident"
    /\ e.callee.obj.sym \in EntityNames
    /\ Len(e.args) = 1
    /\ e.args[1].t = "Arrow"
    /\ HasOpaqueNode(e.args[1].body)

\* C21 (as claimed): a filter call whose predicate has a node that is not
\* lowerable is left as it was written, the predicate included.
C21_CallUntouched ==
    ast.stage # "none" /\ ast.stage # "parsed" =>
        \A i \in 1..Len(ast.module) :
            ast.module[i].t = "Expr" /\ UnloweredFilter(ast.module[i].expr) =>
                ast.once[i] = ast.module[i]

\* C21 (amended): a filter call whose predicate has a node that is not
\* lowerable keeps its callee .filter and its one argument: none is
\* appended and the predicate is still the arrow function of the same
\* parameters; where the predicate holds no filter call of its own the
\* whole call is the call that was written.  (A lowerable filter call
\* inside the predicate is lowered as any filter call is.)
C21_NoPartialLowering ==
    ast.stage # "none" /\ ast.stage # "parsed" =>
        \A i \in 1..Len(ast.module) :
            ast.module[i].t = "Expr" /\ UnloweredFilter(ast.module[i].expr) =>
                /\ ast.once[i].t = "Expr"
                /\ ast.once[i].expr.t = "Call"
                /\ ast.once[i].expr.callee = ast.module[i].expr.callee
                /\ Len(ast.once[i].expr.args) = Len(ast.module[i].expr.args)
                /\ ast.once[i].expr.args[1].t = "Arrow"
                /\ ast.once[i].expr.args[1].params
                      = ast.module[i].expr.args[1].params
                /\ (~FilterLeftInExpr(ast.module[i].expr.args[1])
                      => ast.once[i] = ast.module[i])

\* A module was rewritten that holds a filter call lowerable only in part,
\* which is as it was written, and a filter call whose predicate is a
\* filter call: it kept its callee and its one argument, an arrow function
\* whose body is the inner call lowered.
C21_Witness ==
    /\ ast.stage = "rewritten"
    /\ \E i \in 1..Len(ast.module) :
          /\ ast.module[i] =
                ExprStmt(CallExpr(MemberExpr(Ident("Users"), "filter"),
                                  <<PredMixed>>))
          /\ ast.once[i] = ast.module[i]
    /\ \E i \in 1..Len(ast.module) :
          /\ ast.module[i] =
                ExprStmt(CallExpr(MemberExpr(Ident("Users"), "filter"),
                                  <<ArrowExpr(<<"u">>, FilterCall)>>))
          /\ ast.once[i].expr.callee = MemberExpr(Ident("Users"), "filter")
          /\ Len(ast.once[i].expr.args) = 1
          /\ ast.once[i].expr.args[1].body.callee.prop
                = "__filterWithExpression"

\* The value of the property named key of an object literal.
PropValue(obj, key) ==
    obj.props[CHOOSE i \in 1..Len(obj.props) : obj.props[i].key = key].value

HasProp(obj, key) == \E i \in 1..Len(obj.props) : obj.props[i].key = key

\* The first index (from 0) of name among params.
FirstIndex(params, name) ==
    (CHOOSE i \in 1..Len(params) :
        /\ params[i] = name
        /\ \A j \in 1..Len(params) : params[j] = name => i <= j) - 1

\* obj encodes the predicate node e, every identifier of e as a Parameter
\* (by first position) when it names a parameter and as an Identifier
\* otherwise.
RECURSIVE IdentsEncoded(_, _, _)
IdentsEncoded(e, obj, params) ==
    /\ obj.t = "Object"
    /\ CASE e.t = "Bin" ->
              /\ PropValue(obj, "exprType") = Lit("Binary")
              /\ IdentsEncoded(e.left, PropValue(obj, "left"), params)
              /\ IdentsEncoded(e.right, PropValue(obj, "right"), params)
         [] e.t = "Member" ->
              /\ PropValue(obj, "exprType") = Lit("Property")
              /\ IdentsEncoded(e.obj, PropValue(obj, "object"), params)
         [] e.t = "Ident" ->
              IF \E i \in 1..Len(params) : params[i] = e.sym
              THEN /\ PropValue(obj, "exprType") = Lit("Parameter")
                   /\ PropValue(obj, "position")
                         = Lit(FirstIndex(params, e.sym))
                   /\ ~HasProp(obj, "ident")
              ELSE /\ PropValue(obj, "exprType") = Lit("Identifier")
                   /\ PropValue(obj, "ident") = Lit(e.sym)
                   /\ ~HasProp(obj, "position")
         [] OTHER -> PropValue(obj, "exprType") = Lit("Literal")

\* C22: in the expression object appended to a rewritten call, every
\* identifier of the predicate that names the lambda's i-th parameter is
\* {exprType: "Parameter", position: i} (the first such i), every other
\* identifier is {exprType: "Identifier", ident: name}, and none is both.
C22_IdentifiersEncoded ==
    ast.stage # "none" /\ ast.stage # "parsed" =>
        \A i \in 1..Len(ast.module) :
            ast.module[i].t = "Expr" /\ ast.module[i].expr.t = "Call"
              /\ IsFilter(ast.module[i].expr) =>
                /\ Len(ast.once[i].expr.args)
                      = Len(ast.module[i].expr.args) + 1
                /\ IdentsEncoded(
                      ast.module[i].expr.args[1].body,
                      ast.once[i].expr.args[Len(ast.once[i].expr.args)],
                      ast.module[i].expr.args[1].params)

\* The call with parameters (u, i, u) and the free identifier k was
\* rewritten: i is parameter 1 in its expression object.
C22_Witness ==
    /\ ast.stage = "rewritten"
    /\ \E i \in 1..Len(ast.module) :
          /\ ast.module[i] =
                ExprStmt(CallExpr(MemberExpr(Ident("Users"), "filter"),
                                  <<PredParams>>))
          /\ Len(ast.once[i].expr.args) = 2
          /\ PropValue(PropValue(PropValue(ast.once[i].expr.args[2], "left"),
                                  "right"), "position") = Lit(1)

\* The JSON of a row under given FieldPolicies, by those two alone.
Projected(policies, row) ==
    [f \in UserType.fields |->
        IF f \in DOMAIN policies.transforms THEN <<"xxxxx">> ELSE row[f]]

\* C23: row projection is deterministic: no step changes the FieldPolicies
\* of a row stream, and the JSON a query_next answers with is determined by
\* the row at the cursor and those FieldPolicies alone, whatever path is
\* current at the read and whatever other requests do.
C23_ProjectionPure ==
    [][\A rid \in 1..Len(resources) :
          rid <= Len(resources') /\ resources[rid].kind = "rows" =>
              /\ resources'[rid].policies = resources[rid].policies
              /\ (resources'[rid].pos = resources[rid].pos + 1
                    /\ resources'[rid].read = "row" =>
                    resources'[rid].out
                      = Projected(resources[rid].policies,
                                  Rows[resources'[rid].pos]))]_vars

\* A row stream whose policies anonymize email has answered its second
\* row in a poll whose path is exempt.
C23_Witness ==
    \E rid \in 1..Len(resources) :
        /\ resources[rid].kind = "rows"
        /\ resources[rid].pos = 2
        /\ resources[rid].out # NoRow
        /\ resources[rid].out["email"] = <<"xxxxx">>
        /\ current_path = PathAdmin

\* C24 (as claimed): add_from_yaml of a document with a label whose
\* transform is given and is any value other than anonymize returns an error
\* and leaves the versions map as it was.
C24_UnknownTransformRejected ==
    (\E i \in 1..Len(yaml_load.yaml) :
         yaml_load.yaml[i].transform \notin {"anonymize", "none"}) =>
        /\ yaml_load.result = "error"
        /\ versions = yaml_load.before

\* Where the entry of a path stands: Vacant, Loading (a define_endpoint call
\* for the path has stored its version and not returned), Loaded, or Failed
\* (a version with no function and no call under way).
Phase(hs, d, p) ==
    IF ~hs[p].present THEN "Vacant"
    ELSE IF hs[p].func.some THEN "Loaded"
    ELSE IF d.pc = "importing" /\ d.path = p THEN "Loading"
    ELSE "Failed"

\* C25: the entry of each path moves only Vacant -> Loading(0),
\* Loading(v) -> Loaded(v, fn) or Failed(v), and Loaded(v, fn) or
\* Failed(v) -> Loading(v + 1); and a request is handed a handler only
\* while its path is Loaded.
C25_EndpointLifecycle ==
    [][/\ \A p \in Paths :
            LET a == Phase(handlers, def, p)
                b == Phase(handlers', def', p)
                v == handlers[p].version
                w == handlers'[p].version
            IN \/ handlers'[p] = handlers[p] /\ b = a
               \/ a = "Vacant" /\ b = "Loading" /\ w = 0
               \/ a = "Loading" /\ b \in {"Loaded", "Failed"} /\ w = v
               \/ a \in {"Loaded", "Failed"} /\ b = "Loading" /\ w = v + 1
       /\ \A r \in Requests :
            (req'[r].func.some /\ ~req[r].func.some) =>
                /\ Phase(handlers, def, req'[r].path) = "Loaded"
                /\ req'[r].func = handlers[req'[r].path].func]_vars

\* A path that was Loaded at version 0 is Loading at version 1 while a
\* request holds the handler it was handed at version 0.
C25_Witness ==
    \E p \in Paths :
        /\ Phase(handlers, def, p) = "Loading"
        /\ handlers[p].version = 1
        /\ \E r \in Requests : req[r].func.some /\ req[r].path = p
                                 /\ req[r].func.ver = 0

\* C26 (as claimed): a define_endpoint call that starts while an earlier
\* call is suspended awaiting its import is ordered after it: the step
\* leaves the VM thread running, so that both calls run to completion.
C26_OverlappingDefinesOrdered ==
    [][(def.pc = "importing" /\ ndefs' = ndefs + 1) => panicked' = "none"]_vars

\* C30 (as claimed): a source that does not parse makes define_endpoint
\* return a compilation error; the VM thread does not go down over it.
C30_ParseErrorReturned == panicked # "compile unwrap"

\* The define_endpoint call under way or last returned is a redefinition of
\* a path whose previous version was loaded with a handler.
RedefinesLoaded ==
    /\ def.version >= 1
    /\ \E c \in {"h1", "h2"} :
          Module(EndpointUrl(def.path, def.version - 1), c) \in modules

\* C27 (as claimed): while a redefinition of a Loaded path has started and
\* has not installed the new handler, the entry holds the prior handler.
C27_PriorHandlerKept ==
    (def.pc = "importing" /\ RedefinesLoaded) =>
        /\ handlers[def.path].func.some
        /\ handlers[def.path].func.ver = def.version - 1

\* C28 (as claimed): after a failed redefinition of a Loaded path the entry
\* is at the new version with no function, and a request for the path is
\* answered with an error (EndpointNotLoaded), the VM thread staying up.
C28_FailedRedefinitionNotLoaded ==
    (def.pc = "idle" /\ def.result \in LoadFailures /\ RedefinesLoaded) =>
        /\ handlers[def.path] = VersionedHandler(def.version, NoFunc)
        /\ panicked # "unwrap on no func"

\* C29 (as claimed): while a request holds the handler of version v of its
\* path and a redefinition of the path to version v + 1 is under way, no
\* step fails the request or changes the handler it holds.
C29_InFlightKeepsHandle ==
    [][\A r \in Requests :
          (/\ req[r].func.some
           /\ def'.pc = "importing"
           /\ def'.path = req[r].path
           /\ def'.version = req[r].func.ver + 1) =>
              /\ panicked' = "none"
              /\ req'[r].func = req[r].func]_vars

\* C31 (as claimed): once define_endpoint has returned, with success or
\* with an error, the loader's map no longer holds the source the call
\* inserted for its path.
C31_SourceRemovedOnReturn ==
    (def.pc = "idle" /\ def.result # "none") => code_map[def.path] = NoCode

\* C32 (as claimed): a pull of a body stream that has reported done or an
\* error is answered with a protocol error, not with an end of stream.
C32_PullAfterCloseIsError ==
    \A r \in Requests : closed_poll[r] \in {"none", "protocol error"}

\* The handler's result lacks status, headers or body, or has one of the
\* wrong shape, or its status as a 16-bit unsigned integer is no status
\* code (100..999).
Malformed(res) ==
    \/ ~res.object
    \/ res.body # "stream"
    \/ res.headers # "headers"
    \/ res.status.kind \in {"absent", "string"}
    \/ AsU16(res.status) < 100
    \/ AsU16(res.status) > 999

\* C33: a request whose handler resolved to a malformed result has failed
\* with an error, and run_js_aux returned no response for it.
C33_MalformedResultFails ==
    \A r \in Requests :
        (handler_result[r].returned # "none"
           /\ Malformed(handler_result[r].value)) =>
            /\ handler_result[r].returned = "error"
            /\ req[r].pc = "failed"

\* One request failed over a status beyond 16 bits whose low 16 bits are
\* 200, another was answered with the status 200 for 200.5.
C33_Witness ==
    \E r1, r2 \in Requests :
        /\ handler_result[r1].value = WellFormed(Number(657360))
        /\ handler_result[r1].returned = "error"
        /\ handler_result[r2].value = WellFormed(Number(2005))
        /\ handler_result[r2].returned = "response"
        /\ handler_result[r2].status = 200

\* The body resources the table holds.
LiveBodies ==
    {rid \in 1..Len(resources) :
        resources[rid].kind = "body" /\ resources[rid].open}

\* The requests with a body whose Request was built: those that got past
\* their headers to the handler call.
BodyRequests ==
    {r \in Requests : \E rid \in 1..Len(resources) :
        resources[rid].kind = "body" /\ resources[rid].owner = r}

\* C34: a body resource in the table is there, the same, after every step
\* but a close of it by a script: the handler returning, the response body
\* ending and the client disconnecting leave it; so while no script has
\* closed a body the table holds one body for each request that was given
\* one, which is every request that reached its handler.
C34_BodyLeavesOnlyOnClose ==
    /\ []((\A rid \in 1..Len(resources) : resources[rid].open) =>
            /\ Cardinality(LiveBodies) = Cardinality(BodyRequests)
            /\ \A r \in Requests :
                  req[r].pc \in {"handler", "streaming", "pulling", "done",
                                 "dropped"} => r \in BodyRequests)
    /\ [][\A rid \in 1..Len(resources) :
            rid \in LiveBodies =>
                /\ rid <= Len(resources')
                /\ resources'[rid].kind = "body"
                /\ resources'[rid].owner = resources[rid].owner
                /\ \/ resources'[rid].open
                   \/ \E t \in Requests : CloseResource(t, rid)]_vars

\* Two requests with a body are over, one with its response streamed to
\* the end and one with its client gone, neither script closed its body,
\* and the table holds both bodies.
C34_Witness ==
    /\ Cardinality(LiveBodies) = 2
    /\ \E r1, r2 \in Requests :
          /\ req[r1].pc = "done"
          /\ req[r2].pc = "dropped"
          /\ \E rid \in LiveBodies : resources[rid].owner = r1
          /\ \E rid \in LiveBodies : resources[rid].owner = r2

\* C35 (as claimed): a host op issued on a resource while another op on the
\* same resource is suspended is answered with a value or an error; it does
\* not take the VM thread down.
C35_ConcurrentOpsAnswered == panicked # "body already borrowed"

\* The argument of a query_create call is one the claim names as failing.
BadContent(content) ==
    \/ content.type_name # "User"
    \/ content.field_name = "<number>"
    \/ content.engine # "ok"

\* C36: a query_create with a type_name that is missing, no string or
\* unknown, a field_name that is no string, or a query the engine rejects
\* returns an error and adds no resource; a query_next or read_body on an
\* id that is not in the table returns an error; and the step in which
\* either error is returned leaves the resource table as it was.
C36_FailedOpsLeaveTable ==
    /\ [](\A content \in Contents :
            BadContent(content) => QueryCreateOutcome(content) # "ok")
    /\ [][/\ op_result' # op_result =>
              /\ op_result'.result # "none"
              /\ resources' = resources
         /\ Len(resources') > Len(resources) =>
              /\ op_result' = op_result
              /\ Len(resources') = Len(resources) + 1]_vars

\* A query_next on an id the table never held has failed while the table
\* holds one row stream, two rows into it.
C36_Witness ==
    /\ op_result.op = "query_next"
    /\ op_result.result = "BadResource"
    /\ op_result.rid > Len(resources)
    /\ Len(resources) = 1
    /\ resources[1].kind = "rows"
    /\ resources[1].open
    /\ resources[1].pos = 2

\* Some key of m is a prefix of path and none of m's longer keys is.
IsLongestRegistered(m, k, path) ==
    /\ k \in DOMAIN m
    /\ StartsWith(path, k)
    /\ \A q \in DOMAIN m : StartsWith(path, q) => Len(q) <= Len(k)

\* C37: is_allowed answers true exactly when no registered path is a prefix
\* of the path, or a username is given and matches the regex registered for
\* the longest registered prefix; the call made last answered so too.
C37_AllowedByLongestPrefix ==
    /\ \A username \in Usernames, path \in AuthPaths :
          IsAllowed(user_authorization, username, path) <=>
              \/ \A k \in DOMAIN user_authorization : ~StartsWith(path, k)
              \/ /\ username.some
                 /\ \E k \in DOMAIN user_authorization :
                       /\ IsLongestRegistered(user_authorization, k, path)
                       /\ IsMatch(user_authorization[k], username.name)
    /\ auth_call.op = "is_allowed" =>
          (auth_call.result = "true" <=>
              \/ \A k \in DOMAIN auth_call.before :
                    ~StartsWith(auth_call.path, k)
              \/ /\ auth_call.username.some
                 /\ \E k \in DOMAIN auth_call.before :
                       /\ IsLongestRegistered(auth_call.before, k,
                                              auth_call.path)
                       /\ IsMatch(auth_call.before[k],
                                  auth_call.username.name))

\* is_allowed has refused "al" at users/admin/audit, where users admits
\* "al" and the longer users/admin admits only names that begin with b.
C37_Witness ==
    /\ auth_call.op = "is_allowed"
    /\ auth_call.result = "false"
    /\ auth_call.path = AuthUsersAdminAudit
    /\ auth_call.username = SomeUsername(<<"a", "l">>)
    /\ AuthUsers \in DOMAIN user_authorization
    /\ AuthUsersAdmin \in DOMAIN user_authorization
    /\ user_authorization[AuthUsers] = RegexNew(<<"^", "a">>)
    /\ user_authorization[AuthUsersAdmin] = RegexNew(<<"^", "b">>)

\* C38 (as claimed): an add of a path that was already added returns an
\* error and leaves the authorization as it was: is_allowed decides every
\* request as it did before the rejected add.
C38_RejectedAddKeepsState ==
    auth_call.op = "add" =>
        /\ auth_call.path \in DOMAIN auth_call.before =>
              auth_call.result = "error"
        /\ auth_call.result = "error" =>
              \A username \in Usernames, path \in AuthPaths :
                  IsAllowed(user_authorization, username, path) =
                      IsAllowed(auth_call.before, username, path)
====
